---- MODULE Spec2Model ----
(***************************************************************************)
(* dogetracker: the block-ingest loop (main, ProcessBlockTransactions,     *)
(* HandleChainReorganization), the store operations of package db and the  *)
(* mempool tracker (checkMempool), as a state machine over the four        *)
(* tables tracked_addresses, transactions, unspent_outputs, block_tracker. *)
(*                                                                         *)
(* Amounts are kept in satoshi (the code's float64(value)/1e8 is the same  *)
(* quantity in DOGE). Every db.Exec of the code is its own commit: the     *)
(* code opens no database transaction, so the ingest task is modelled one  *)
(* statement group at a time, with the other tasks free to run between.    *)
(*                                                                         *)
(* Spec and SpecFail run the ingest, the mempool tracker and the API with  *)
(* one step per request. SpecApi runs the API server and the tracker's     *)
(* address map one statement at a time; SpecStart is the start of main.    *)
(***************************************************************************)
EXTENDS Integers, Sequences, FiniteSets, TLC

VARIABLES
    tracked_addresses,  \* table: address -> [required_confirmations, balance]
    transactions,       \* table: <<address, tx_id>> -> row
    unspent_outputs,    \* table: set of [address_id, tx_id, vout, amount]
    block_tracker,      \* table: the singleton cursor row, or NoCursor
    base,               \* height of the block the walker resumed from
    chain,              \* walker: the blocks emitted (and not undone) above base
    pc,                 \* ingest task: position inside the current event
    event,              \* ingest task: the event being applied
    trackedAddrs,       \* ingest task: address map loaded at the top of the unit
    txIndex,            \* ingest task: index of the next block transaction
    mpPc,               \* mempool task: position inside checkMempool
    mpAddrs,            \* mempool task: MempoolTracker.trackedAddrs
    mpQueue,            \* mempool task: matches of the current tx still to handle
    reorgs,             \* walker: number of Undo events emitted so far
    ticks,              \* node: number of mempool transactions handed to the tracker
    early,              \* history: addresses registered before any block connect
    failed,             \* history: a call inside the current/last unit failed
    http,               \* API task: the request each handler goroutine is serving
    apiToken,           \* API task: Server.apiToken
    newAddrMap,         \* mempool task: the map RefreshAddresses is building
    fatal,              \* runtime: the process was stopped by a fatal error
    boot,               \* main: the inputs of startup and the resume block chosen
    blockData,          \* codec: the bytes handed to DecodeBlock
    decoded,            \* codec: what DecodeBlock returned
    node,               \* SPV: the fields of SPVNode
    startCall,          \* SPV: position of the SPVNode.Start call
    fetchCall,          \* SPV: position of the GetBlockTransactions call
    wire,               \* SPV: messages to the node and messages it sent
    ctx,                \* main: the top-level context, live or cancelled
    stop,               \* mempool task: MempoolTracker.stop, open or closed
    call                \* a call of one function: its name, arguments and result

vars == <<tracked_addresses, transactions, unspent_outputs, block_tracker, base,
          chain, pc, event, trackedAddrs, txIndex, mpPc, mpAddrs, mpQueue,
          reorgs, ticks, early, failed, http, apiToken, newAddrMap, fatal, boot,
          blockData, decoded, node, startCall, fetchCall, wire, ctx, stop, call>>

----------------------------------------------------------------------------
(* Bounds of the model *)

MaxBlocks == 2      \* blocks the walker holds above base
MaxBlockTxs == 2    \* transactions per block
MaxUndo == 2        \* blocks undone by one Undo event
MaxReorgs == 1      \* Undo events the walker emits
MaxTicks == 1       \* mempool transactions the tracker matches
MaxReq == 2         \* largest required_confirmations registered
AgedBase == 49      \* resume height of the aged initial store
MaxHandlers == 2    \* API requests served at the same time
MaxHeaderLen == 3   \* symbols of an Authorization header
MaxStartLen == 2    \* characters of a START_BLOCK value
CursorHeight == 2   \* height of the persisted cursor row at startup
MaxTip == 12        \* height of the node's best block
MaxCount == 3       \* largest one-byte transaction count of a block input
MaxTxs == 3         \* transactions encoded into a block input
Huge == 4194304     \* counts from here on are kept as this value
MaxNonce == 2       \* ping payloads
MaxHashes == 1      \* block hashes asked for and answered
MaxBatch == 2       \* headers of a short headers message
MaxHeaderMsgs == 2  \* headers messages handled one after another
MaxInvItems == 2    \* items of an inv payload
TwoByteUvarint == 128   \* a header count PutUvarint writes in two bytes
ThreeByteVarInt == 253  \* a header count ReadVarInt reads from three bytes
MaxPeerMsgs == 3    \* messages the peer sends
StartHeight == 7    \* startHeight given to NewSPVNode
MaxRowHeight == 3   \* block heights of a stored row and of a connected block

(* Program constants *)

MaxConfirmations == 50
AuxPowVersion == 536870912     \* 0x20000000
MaxHeadersResults == 1000
GetDataLen == 37       \* make([]byte, 37) of sendGetDataMessage
GetDataHashEnd == 40   \* payload[8:40] of sendGetDataMessage

----------------------------------------------------------------------------
(* The chain source: a fixed universe of transactions *)

Addr == {"a1", "a2"}          \* addresses an operator may register
Ext == "ext"                  \* a transaction outside the universe paying "x"

TxIds == {"T1", "T2", "T3", "T4"}

Out(a, v) == [addr |-> a, value |-> v]
In(t, n) == [txid |-> t, vout |-> n]

\* GetRawTransaction + DecodeTx: the inputs and outputs of a transaction.
\* A coinbase has no input with a TxID.
Tx(t) ==
    CASE t = "T1" -> [vin |-> <<>>, vout |-> <<Out("a1", 5)>>]
      [] t = "T2" -> [vin |-> <<In(Ext, 0)>>, vout |-> <<Out("a2", 3), Out("a1", 2)>>]
      [] t = "T3" -> [vin |-> <<In("T1", 0)>>, vout |-> <<Out("x", 5)>>]
      [] t = "T4" -> [vin |-> <<In("T1", 0), In("T2", 1)>>, vout |-> <<Out("a2", 6), Out("x", 1)>>]
      [] t = Ext  -> [vin |-> <<>>, vout |-> <<Out("x", 9)>>]
      [] t = "T5" -> [vin |-> <<In("T1", 0)>>, vout |-> <<Out("a1", 4), Out("x", 1)>>]

\* prevTx.VOut[vin.VOut]: the output an input spends
PrevOut(in) == Tx(in.txid).vout[in.vout + 1]

----------------------------------------------------------------------------
(* Column values *)

\* a NULL block_height / block_hash column of a transactions row
NullHeight == -1
NullHash == << <<"NULL">> >>
\* the value a column of transactions takes when the INSERT does not name it
StatusDefault == "pending"
\* the value required_confirmations takes when the INSERT does not name it
RequiredDefault == 1
TimestampDefault == 0

NoCursor == [last_block_height |-> NullHeight, last_block_hash |-> NullHash]

\* the block the aged initial store has T1 in (height 1, far below base)
OldHash == << <<"old">> >>
OldHeight == 1

----------------------------------------------------------------------------
(* Store operations (package db) and the SQL statements of main *)

RECURSIVE SumAmounts(_)
SumAmounts(rows) ==
    IF rows = {} THEN 0
    ELSE LET r == CHOOSE r \in rows : TRUE
         IN r.amount + SumAmounts(rows \ {r})

\* GetAddressDetails: the unspent_outputs rows of one address
UnspentOf(utxo, a) == {u \in utxo : u.address_id = a}

\* UPDATE tracked_addresses SET balance = $1 WHERE id = $2
UpdateAddressBalance(addrs, a, balance) ==
    IF a \in DOMAIN addrs THEN [addrs EXCEPT ![a].balance = balance] ELSE addrs

\* INSERT INTO transactions (address_id, tx_id, block_hash, block_height, amount,
\* is_incoming, confirmations) ... ON CONFLICT (address_id, tx_id) DO UPDATE
\* SET block_hash, block_height, confirmations.  status and timestamp are not
\* among the columns written: a new row takes the column defaults.
AddTransaction(txs, a, t, row) ==
    IF <<a, t>> \in DOMAIN txs
    THEN [txs EXCEPT ![<<a, t>>] =
              [@ EXCEPT !.block_hash = row.block_hash,
                        !.block_height = row.block_height,
                        !.confirmations = row.confirmations]]
    ELSE txs @@ (<<a, t>> :>
              [block_hash |-> row.block_hash,
               block_height |-> row.block_height,
               amount |-> row.amount,
               is_incoming |-> row.is_incoming,
               confirmations |-> row.confirmations,
               status |-> StatusDefault,
               timestamp |-> TimestampDefault])

\* INSERT INTO unspent_outputs ... ON CONFLICT (address_id, tx_id, vout)
\* DO UPDATE SET amount, script
AddUnspentOutput(utxo, a, t, n, amount) ==
    {u \in utxo : ~(u.address_id = a /\ u.tx_id = t /\ u.vout = n)}
        \cup {[address_id |-> a, tx_id |-> t, vout |-> n, amount |-> amount]}

\* variant: the DELETE matches the transaction but not the output index
RemoveUnspentOutput_WrongVout(utxo, a, t, n) ==
    {u \in utxo : ~(u.address_id = a /\ u.tx_id = t /\ u.vout = n + 1)}

\* DELETE FROM unspent_outputs WHERE address_id = $1 AND tx_id = $2 AND vout = $3
RemoveUnspentOutput(utxo, a, t, n) ==
    {u \in utxo : ~(u.address_id = a /\ u.tx_id = t /\ u.vout = n)}

\* INSERT INTO block_tracker ... ON CONFLICT (id) DO UPDATE
UpdateLastProcessedBlock(hash, height) ==
    [last_block_height |-> height, last_block_hash |-> hash]

\* variant: the confirmation count without the upper clamp
Confirmations_NoClamp(height, block_height) == height - block_height + 1

\* CASE WHEN CAST($1 - block_height + 1 AS INTEGER) > 50 THEN 50 ELSE ... END
Confirmations(height, block_height) ==
    IF height - block_height + 1 > MaxConfirmations
    THEN MaxConfirmations
    ELSE height - block_height + 1

\* variant: the bulk UPDATE without the "block_height IS NOT NULL" guards
BulkConfirmationUpdate_NoNullGuard(txs, height, addrMap) ==
    [k \in DOMAIN txs |->
        IF k[1] \in DOMAIN addrMap
        THEN [txs[k] EXCEPT
                !.confirmations = Confirmations(height, txs[k].block_height),
                !.status = IF Confirmations(height, txs[k].block_height)
                                  >= addrMap[k[1]]
                           THEN "confirmed" ELSE "pending"]
        ELSE txs[k]]

\* the bulk UPDATE at the top of ProcessBlockTransactions, run once for every
\* address of the loaded map with that address's required_confirmations
BulkConfirmationUpdate(txs, height, addrMap) ==
    [k \in DOMAIN txs |->
        IF k[1] \in DOMAIN addrMap
        THEN IF txs[k].block_height # NullHeight
             THEN [txs[k] EXCEPT
                     !.confirmations = Confirmations(height, txs[k].block_height),
                     !.status = IF Confirmations(height, txs[k].block_height)
                                       >= addrMap[k[1]]
                                THEN "confirmed" ELSE "pending"]
             ELSE [txs[k] EXCEPT !.confirmations = 0, !.status = "pending"]
        ELSE txs[k]]

\* the UPDATE of an existing row (outputs loop and inputs loop): every
\* block_height on the right-hand side is the row's value before the UPDATE
UpdateExistingTransaction(txs, k, hash, height, time, required) ==
    LET old == txs[k].block_height
    IN [txs EXCEPT ![k] =
          [@ EXCEPT !.block_hash = hash,
                    !.block_height = height,
                    !.timestamp = time,
                    !.confirmations = IF old # NullHeight
                                      THEN Confirmations(height, old) ELSE 1,
                    !.status = IF old # NullHeight
                                  /\ Confirmations(height, old) >= required
                               THEN "confirmed" ELSE "pending"]]

\* the new row built by ProcessBlockTransactions when the SELECT finds none
BlockRow(hash, height, amount, incoming) ==
    [block_hash |-> hash, block_height |-> height, amount |-> amount,
     is_incoming |-> incoming, confirmations |-> 1]

\* variant: the second match of a transaction replaces the row of the first
RecordTransaction_Replace(txs, a, t, ev, amount, incoming, addrMap) ==
    [k \in DOMAIN txs \cup {<<a, t>>} |->
        IF k = <<a, t>>
        THEN [block_hash |-> ev.hash, block_height |-> ev.height, amount |-> amount,
              is_incoming |-> incoming, confirmations |-> 1,
              status |-> StatusDefault, timestamp |-> ev.time]
        ELSE txs[k]]

\* one match of the outputs or the inputs loop: SELECT id, then INSERT or UPDATE
RecordTransaction(txs, a, t, ev, amount, incoming, addrMap) ==
    IF <<a, t>> \in DOMAIN txs
    THEN UpdateExistingTransaction(txs, <<a, t>>, ev.hash, ev.height, ev.time,
                                   addrMap[a])
    ELSE AddTransaction(txs, a, t, BlockRow(ev.hash, ev.height, amount, incoming))

\* "Process outputs (incoming transactions)": outputs i..n of transaction t
RECURSIVE ProcessOutputs(_, _, _, _, _)
ProcessOutputs(S, t, i, ev, addrMap) ==
    IF i > Len(Tx(t).vout) THEN S
    ELSE LET o == Tx(t).vout[i]
         IN IF o.addr \in DOMAIN addrMap
            THEN ProcessOutputs(
                   [transactions |-> RecordTransaction(S.transactions, o.addr, t, ev,
                                                       o.value, TRUE, addrMap),
                    unspent_outputs |-> AddUnspentOutput(S.unspent_outputs, o.addr,
                                                         t, i - 1, o.value)],
                   t, i + 1, ev, addrMap)
            ELSE ProcessOutputs(S, t, i + 1, ev, addrMap)

\* variant: the inputs loop records nothing
ProcessInputs_NoRows(S, t, i, ev, addrMap) == S

\* "Process inputs (outgoing transactions)": inputs i..n of transaction t
RECURSIVE ProcessInputs(_, _, _, _, _)
ProcessInputs(S, t, i, ev, addrMap) ==
    IF i > Len(Tx(t).vin) THEN S
    ELSE LET in == Tx(t).vin[i]
             o == PrevOut(in)
         IN IF o.addr \in DOMAIN addrMap
            THEN ProcessInputs(
                   [transactions |-> RecordTransaction(S.transactions, o.addr, t, ev,
                                                       0 - o.value, FALSE, addrMap),
                    unspent_outputs |-> RemoveUnspentOutput(S.unspent_outputs, o.addr,
                                                            in.txid, in.vout)],
                   t, i + 1, ev, addrMap)
            ELSE ProcessInputs(S, t, i + 1, ev, addrMap)

\* the body of "for _, tx := range block.Block.Tx" for one transaction
ProcessTx(S, t, ev, addrMap) ==
    ProcessInputs(ProcessOutputs(S, t, 1, ev, addrMap), t, 1, ev, addrMap)

\* variant: the balance query sums the unspent outputs of every address
UpdateBalances_AllRows(addrs, utxo, addrMap) ==
    [a \in DOMAIN addrs |->
        IF a \in DOMAIN addrMap
        THEN UpdateAddressBalance(addrs, a, SumAmounts(utxo))[a]
        ELSE addrs[a]]

\* "Update balances for all tracked addresses": the loop over the loaded map
UpdateBalances(addrs, utxo, addrMap) ==
    [a \in DOMAIN addrs |->
        IF a \in DOMAIN addrMap
        THEN UpdateAddressBalance(addrs, a, SumAmounts(UnspentOf(utxo, a)))[a]
        ELSE addrs[a]]

\* HandleChainReorganization, "Remove transactions from invalid blocks", for one
\* block hash: the joined SELECT, then per row the unspent delete and the row delete
UndoBlock(S, hash) ==
    LET hit == {k \in DOMAIN S.transactions : S.transactions[k].block_hash = hash}
    IN [transactions |-> [k \in DOMAIN S.transactions \ hit |-> S.transactions[k]],
        unspent_outputs |->
            {u \in S.unspent_outputs :
                ~(\E k \in hit : /\ S.transactions[k].is_incoming
                                 /\ k[1] = u.address_id
                                 /\ k[2] = u.tx_id)}]

RECURSIVE UndoBlocks(_, _, _)
UndoBlocks(S, hashes, i) ==
    IF i > Len(hashes) THEN S
    ELSE UndoBlocks(UndoBlock(S, hashes[i]), hashes, i + 1)

\* the address map both tasks load: address -> required_confirmations
AddressMap(addrs) == [a \in DOMAIN addrs |-> addrs[a].required_confirmations]

RECURSIVE ProcessBlock(_, _, _, _)
ProcessBlock(S, ev, i, addrMap) ==
    IF i > Len(ev.txs) THEN S
    ELSE ProcessBlock(ProcessTx(S, ev.txs[i], ev, addrMap), ev, i + 1, addrMap)

\* main's Connect branch run without interruption on the tables T:
\* UpdateLastProcessedBlock, then ProcessBlockTransactions
ConnectAll(T, ev) ==
    LET addrMap == AddressMap(T.tracked_addresses)
        S == ProcessBlock(
               [transactions |-> BulkConfirmationUpdate(T.transactions, ev.height,
                                                        addrMap),
                unspent_outputs |-> T.unspent_outputs],
               ev, 1, addrMap)
    IN [tracked_addresses |-> UpdateBalances(T.tracked_addresses, S.unspent_outputs,
                                             addrMap),
        transactions |-> S.transactions,
        unspent_outputs |-> S.unspent_outputs,
        block_tracker |-> UpdateLastProcessedBlock(ev.hash, ev.height)]

\* main's Undo branch run without interruption on the tables T:
\* HandleChainReorganization
UndoAll(T, hashes) ==
    LET S == UndoBlocks([transactions |-> T.transactions,
                         unspent_outputs |-> T.unspent_outputs], hashes, 1)
    IN [tracked_addresses |-> UpdateBalances(T.tracked_addresses, S.unspent_outputs,
                                             AddressMap(T.tracked_addresses)),
        transactions |-> S.transactions,
        unspent_outputs |-> S.unspent_outputs,
        block_tracker |-> T.block_tracker]

----------------------------------------------------------------------------
(* The walker and the node: which blocks and mempool entries can occur *)

RECURSIVE Flatten(_)
Flatten(blocks) ==
    IF blocks = <<>> THEN <<>> ELSE Head(blocks) \o Flatten(Tail(blocks))

Range(seq) == {seq[i] : i \in DOMAIN seq}

\* transactions of the active chain at or below base
PreTxs == IF base = 0 THEN {} ELSE {"T1"}

\* transactions of the active chain as the walker has emitted it
OnChain == PreTxs \cup Range(Flatten(chain))

Outpoints(t) == {Tx(t).vin[i] : i \in DOMAIN Tx(t).vin}

\* transaction t can follow the transactions of `before` on a valid chain
Spendable(t, before) ==
    /\ t \notin before
    /\ \A in \in Outpoints(t) :
          /\ in.txid = Ext \/ in.txid \in before
          /\ \A s \in before : in \notin Outpoints(s)

BlockChoices == UNION {[1..n -> TxIds] : n \in 0..MaxBlockTxs}

ValidBlock(txs) ==
    \A j \in DOMAIN txs :
        Spendable(txs[j], OnChain \cup {txs[i] : i \in 1..(j - 1)})

\* GetBlockHeader(hash).Time
HeaderTime(height) == height

NoEvent == [kind |-> "none"]
EmptyMap == [a \in {} |-> 0]

----------------------------------------------------------------------------
(* The API server and the start of main: values of the idle process *)

apiVars == <<http, apiToken, newAddrMap, fatal, boot>>
dogeVars == <<blockData, decoded, node, startCall, fetchCall, wire, call>>
haltVars == <<ctx, stop>>

Handlers == 1..MaxHandlers

\* a handler goroutine that serves no request
IdleHandler ==
    [pc |-> "idle", route |-> "", addr |-> "", r |-> 0, resp |-> 0, auth |-> FALSE]

\* main after startup: the walker, the mempool tracker and the API are running
Running == [phase |-> "running"]

\* package doge at rest: nothing to decode, no SPV node started
DogeIdle ==
    /\ blockData = <<>>
    /\ decoded = [status |-> "none"]
    /\ node = [connected |-> FALSE]
    /\ startCall = "none"
    /\ fetchCall = "none"
    /\ wire = [in |-> <<>>, out |-> <<>>]
    /\ call = [fn |-> "none"]

\* no cancel signal, MempoolTracker.Stop not called
NotHalted == ctx = "live" /\ stop = "open"

----------------------------------------------------------------------------
(* Initial states: an empty store resumed at height 0, or a store that has *)
(* indexed T1 at height 1 and every (empty) block up to AgedBase           *)

AgedRows(r) ==
    BulkConfirmationUpdate(
        AddTransaction(EmptyMap, "a1", "T1", BlockRow(OldHash, OldHeight, 5, TRUE)),
        AgedBase, "a1" :> r)

Init ==
    /\ base \in {0, AgedBase}
    /\ \E r \in 1..MaxReq :
          /\ tracked_addresses =
                ("a1" :> [required_confirmations |-> r,
                          balance |-> IF base = 0 THEN 0 ELSE 5])
          /\ transactions = IF base = 0 THEN EmptyMap ELSE AgedRows(r)
    /\ unspent_outputs =
          IF base = 0 THEN {} ELSE AddUnspentOutput({}, "a1", "T1", 0, 5)
    /\ block_tracker =
          IF base = 0 THEN NoCursor ELSE UpdateLastProcessedBlock(<<>>, AgedBase)
    /\ chain = <<>>
    /\ pc = "idle"
    /\ event = NoEvent
    /\ trackedAddrs = EmptyMap
    /\ txIndex = 0
    /\ mpPc = "idle"
    /\ mpAddrs = AddressMap(tracked_addresses)
    /\ mpQueue = <<>>
    /\ reorgs = 0
    /\ ticks = 0
    /\ early = {"a1"}
    /\ failed = FALSE
    /\ http = [h \in Handlers |-> IdleHandler]
    /\ apiToken = <<"s">>
    /\ newAddrMap = EmptyMap
    /\ fatal = FALSE
    /\ boot = Running
    /\ DogeIdle
    /\ NotHalted

----------------------------------------------------------------------------
(* The ingest task: "case b := <-blocks" of main *)

storeVars == <<tracked_addresses, transactions, unspent_outputs, block_tracker>>
mempoolVars == <<mpPc, mpAddrs, mpQueue, ticks>>

\* a Connect event that hands over the transactions of the whole chain again
ConnectEvent_Rescan(txs) ==
    [kind |-> "connect",
     hash |-> Append(chain, txs),
     height |-> base + Len(chain) + 1,
     time |-> HeaderTime(base + Len(chain) + 1),
     txs |-> Flatten(chain) \o txs]

\* the Connect event of the block with transactions txs on top of the chain
ConnectEvent(txs) ==
    [kind |-> "connect",
     hash |-> Append(chain, txs),
     height |-> base + Len(chain) + 1,
     time |-> HeaderTime(base + Len(chain) + 1),
     txs |-> txs]

\* an ingest that hands every event to a task of its own
Receiving_TaskPerEvent == pc # "returned"

\* the ingest goroutine is at its select, the event before has been dealt with
Receiving == pc = "idle"

\* a Connect event arrives: the walker has appended the block to its chain
RecvConnect(txs) ==
    /\ Receiving
    /\ Len(chain) < MaxBlocks
    /\ ValidBlock(txs)
    /\ chain' = Append(chain, txs)
    /\ event' = ConnectEvent(txs)
    /\ pc' = "cursor"
    /\ failed' = FALSE
    /\ UNCHANGED <<storeVars, base, trackedAddrs, txIndex, mempoolVars, reorgs, early, apiVars,
                   dogeVars, haltVars>>

\* main: serverdb.UpdateLastProcessedBlock, before the block is processed
ConnectCursor ==
    /\ pc = "cursor"
    /\ block_tracker' = UpdateLastProcessedBlock(event.hash, event.height)
    /\ pc' = "refresh"
    /\ UNCHANGED <<tracked_addresses, transactions, unspent_outputs, base, chain,
                   event, trackedAddrs, txIndex, mempoolVars, reorgs, early, failed, apiVars,
                   dogeVars, haltVars>>

\* ProcessBlockTransactions: load the address map, then the bulk UPDATE
ConnectRefresh ==
    /\ pc = "refresh"
    /\ trackedAddrs' = AddressMap(tracked_addresses)
    /\ transactions' = BulkConfirmationUpdate(transactions, event.height, trackedAddrs')
    /\ txIndex' = 1
    /\ pc' = "txs"
    /\ UNCHANGED <<tracked_addresses, unspent_outputs, block_tracker, base, chain,
                   event, mempoolVars, reorgs, early, failed, apiVars, dogeVars, haltVars>>

\* ProcessBlockTransactions: one iteration of the loop over block.Block.Tx
ConnectTx ==
    /\ pc = "txs"
    /\ txIndex <= Len(event.txs)
    /\ LET S == ProcessTx([transactions |-> transactions,
                           unspent_outputs |-> unspent_outputs],
                          event.txs[txIndex], event, trackedAddrs)
       IN /\ transactions' = S.transactions
          /\ unspent_outputs' = S.unspent_outputs
    /\ txIndex' = txIndex + 1
    /\ UNCHANGED <<tracked_addresses, block_tracker, base, chain, pc, event,
                   trackedAddrs, mempoolVars, reorgs, early, failed, apiVars, dogeVars, haltVars>>

\* ProcessBlockTransactions: the balance loop, then return nil
ConnectBalances ==
    /\ pc = "txs"
    /\ txIndex > Len(event.txs)
    /\ tracked_addresses' = UpdateBalances(tracked_addresses, unspent_outputs, trackedAddrs)
    /\ pc' = "idle"
    /\ trackedAddrs' = EmptyMap
    /\ txIndex' = 0
    /\ UNCHANGED <<transactions, unspent_outputs, block_tracker, base, chain, event,
                   mempoolVars, reorgs, early, failed, apiVars, dogeVars, haltVars>>

\* ProcessBlockTransactions: blockchain.GetBlockHeader fails; the transaction is
\* skipped with "continue" and the loop goes on
ConnectHeaderFails ==
    /\ pc = "txs"
    /\ txIndex <= Len(event.txs)
    /\ txIndex' = txIndex + 1
    /\ failed' = TRUE
    /\ UNCHANGED <<storeVars, base, chain, pc, event, trackedAddrs, mempoolVars,
                   reorgs, early, apiVars, dogeVars, haltVars>>

\* ProcessBlockTransactions: the first db.Query fails; the function returns the
\* error and main logs it
ConnectQueryFails ==
    /\ pc = "refresh"
    /\ pc' = "idle"
    /\ failed' = TRUE
    /\ UNCHANGED <<storeVars, base, chain, event, trackedAddrs, txIndex,
                   mempoolVars, reorgs, early, apiVars, dogeVars, haltVars>>

\* the newest k block hashes of the chain, newest first
TopHashes(k) == [i \in 1..k |-> SubSeq(chain, 1, Len(chain) - i + 1)]

\* an Undo event arrives: the walker has dropped the newest k blocks
RecvUndo(k) ==
    /\ Receiving
    /\ k <= Len(chain)
    /\ reorgs < MaxReorgs
    /\ event' = [kind |-> "undo",
                 hashes |-> TopHashes(k),
                 last_valid_height |-> base + Len(chain) - k,
                 resume_from_block |-> SubSeq(chain, 1, Len(chain) - k)]
    /\ chain' = SubSeq(chain, 1, Len(chain) - k)
    /\ pc' = "undo"
    /\ failed' = FALSE
    /\ reorgs' = reorgs + 1
    /\ UNCHANGED <<storeVars, base, trackedAddrs, txIndex, mempoolVars, early, apiVars,
                   dogeVars, haltVars>>

\* HandleChainReorganization: load the addresses, then the loop over BlockHashes
UndoRows ==
    /\ pc = "undo"
    /\ trackedAddrs' = AddressMap(tracked_addresses)
    /\ LET S == UndoBlocks([transactions |-> transactions,
                            unspent_outputs |-> unspent_outputs],
                           event.hashes, 1)
       IN /\ transactions' = S.transactions
          /\ unspent_outputs' = S.unspent_outputs
    /\ pc' = "undobalances"
    /\ UNCHANGED <<tracked_addresses, block_tracker, base, chain, event, txIndex,
                   mempoolVars, reorgs, early, failed, apiVars, dogeVars, haltVars>>

\* HandleChainReorganization: the balance loop, then return nil
UndoBalances ==
    /\ pc = "undobalances"
    /\ tracked_addresses' = UpdateBalances(tracked_addresses, unspent_outputs, trackedAddrs)
    /\ pc' = "idle"
    /\ trackedAddrs' = EmptyMap
    /\ txIndex' = 0
    /\ UNCHANGED <<transactions, unspent_outputs, block_tracker, base, chain, event,
                   mempoolVars, reorgs, early, failed, apiVars, dogeVars, haltVars>>

----------------------------------------------------------------------------
(* The mempool task: checkMempool, for one txid of the node's mempool *)

ingestVars == <<base, chain, pc, event, trackedAddrs, txIndex, reorgs, failed>>

\* a transaction the node's mempool can hold: not a coinbase, not on the chain,
\* spending outputs that exist and are unspent on the chain
InMempool(t) == Tx(t).vin # <<>> /\ Spendable(t, OnChain)

Match(a, t, amount, incoming) ==
    [address_id |-> a, tx_id |-> t, amount |-> amount, is_incoming |-> incoming]

\* the outputs of t that pay an address of the map, in output order
RECURSIVE OutputMatches(_, _, _)
OutputMatches(t, i, addrMap) ==
    IF i > Len(Tx(t).vout) THEN <<>>
    ELSE LET o == Tx(t).vout[i]
         IN (IF o.addr \in DOMAIN addrMap
             THEN <<Match(o.addr, t, o.value, TRUE)>> ELSE <<>>)
            \o OutputMatches(t, i + 1, addrMap)

\* the inputs of t that spend an output of an address of the map, in input order
RECURSIVE InputMatches(_, _, _)
InputMatches(t, i, addrMap) ==
    IF i > Len(Tx(t).vin) THEN <<>>
    ELSE LET o == PrevOut(Tx(t).vin[i])
         IN (IF o.addr \in DOMAIN addrMap
             THEN <<Match(o.addr, t, 0 - o.value, FALSE)>> ELSE <<>>)
            \o InputMatches(t, i + 1, addrMap)

\* the row checkMempool builds: no block, no confirmations
PendingRow(m) ==
    [block_hash |-> NullHash, block_height |-> NullHeight, amount |-> m.amount,
     is_incoming |-> m.is_incoming, confirmations |-> 0]

\* checkMempool: RefreshAddresses, then decode one mempool transaction
MempoolBegin(t) ==
    /\ mpPc = "idle"
    /\ InMempool(t)
    /\ mpAddrs' = AddressMap(tracked_addresses)
    /\ mpQueue' = OutputMatches(t, 1, mpAddrs') \o InputMatches(t, 1, mpAddrs')
    /\ mpQueue' # <<>>
    /\ mpPc' = "select"
    /\ ticks < MaxTicks
    /\ ticks' = ticks + 1
    /\ UNCHANGED <<storeVars, ingestVars, early, apiVars, dogeVars, haltVars>>

\* checkMempool: "SELECT id FROM transactions WHERE address_id = $1 AND tx_id = $2"
MempoolSelect ==
    /\ mpPc = "select"
    /\ LET m == Head(mpQueue)
       IN IF <<m.address_id, m.tx_id>> \in DOMAIN transactions
          THEN /\ mpQueue' = Tail(mpQueue)
               /\ mpPc' = IF mpQueue' = <<>> THEN "idle" ELSE "select"
          ELSE /\ mpPc' = "insert"
               /\ UNCHANGED mpQueue
    /\ UNCHANGED <<storeVars, ingestVars, mpAddrs, ticks, early, apiVars, dogeVars, haltVars>>

\* checkMempool: db.AddTransaction after the SELECT returned no row
MempoolInsert ==
    /\ mpPc = "insert"
    /\ LET m == Head(mpQueue)
       IN transactions' = AddTransaction(transactions, m.address_id, m.tx_id,
                                         PendingRow(m))
    /\ mpQueue' = Tail(mpQueue)
    /\ mpPc' = IF mpQueue' = <<>> THEN "idle" ELSE "select"
    /\ UNCHANGED <<tracked_addresses, unspent_outputs, block_tracker, ingestVars,
                   mpAddrs, ticks, early, apiVars, dogeVars, haltVars>>

----------------------------------------------------------------------------
(* The API task: POST /api/track *)

\* handleTrackAddress: GetOrCreateAddressWithDetails, then mempoolTracker.AddAddress
Register(a, r) ==
    /\ a \notin DOMAIN tracked_addresses
    /\ tracked_addresses' =
          tracked_addresses @@ (a :> [required_confirmations |-> r, balance |-> 0])
    /\ mpAddrs' = (a :> r) @@ mpAddrs
    /\ early' = IF block_tracker = NoCursor /\ pc = "idle" /\ chain = <<>>
                THEN early \cup {a} ELSE early
    /\ UNCHANGED <<transactions, unspent_outputs, block_tracker, ingestVars,
                   mpPc, mpQueue, ticks, apiVars, dogeVars, haltVars>>


\* handleGetAddress: GetAddressDetails calls GetOrCreateAddress, which inserts
\* the address it does not find; the INSERT names address and balance only
GetAddress(a) ==
    /\ a \notin DOMAIN tracked_addresses
    /\ tracked_addresses' =
          tracked_addresses @@ (a :> [required_confirmations |-> RequiredDefault,
                                      balance |-> 0])
    /\ UNCHANGED <<transactions, unspent_outputs, block_tracker, ingestVars,
                   mempoolVars, early, apiVars, dogeVars, haltVars>>

----------------------------------------------------------------------------
(* The API server, one statement at a time: authMiddleware, handleTrackAddress, *)
(* handleGetAddress and MempoolTracker.AddAddress on the handler goroutines,    *)
(* RefreshAddresses and the map lookups of checkMempool on the mempool task.    *)
(* A string is a sequence of symbols: "Bearer" and "bearer" stand for these     *)
(* words, "s" and "x" for two characters, " " for the space.                    *)

Alphabet == {"Bearer", "bearer", " ", "s", "x"}
Headers == UNION {[1..n -> Alphabet] : n \in 0..MaxHeaderLen}
Tokens == {<<>>, <<"s">>}

\* strings.Split(s, sep) for a one-symbol separator
RECURSIVE Split(_, _)
Split(s, sep) ==
    IF \A i \in DOMAIN s : s[i] # sep THEN <<s>>
    ELSE LET i == CHOOSE i \in DOMAIN s : s[i] = sep /\ \A j \in 1..(i - 1) : s[j] # sep
         IN <<SubSeq(s, 1, i - 1)>> \o Split(SubSeq(s, i + 1, Len(s)), sep)

\* authMiddleware with any well-formed Bearer header let through
authMiddleware_AnyToken(authHeader, token) ==
    IF authHeader = <<>> THEN FALSE
    ELSE LET parts == Split(authHeader, " ")
         IN ~(Len(parts) # 2 \/ parts[1] # <<"Bearer">>)

\* authMiddleware: TRUE when next(w, r) is called
authMiddleware(authHeader, token) ==
    IF authHeader = <<>> THEN FALSE
    ELSE LET parts == Split(authHeader, " ")
         IN ~(Len(parts) # 2 \/ parts[1] # <<"Bearer">> \/ parts[2] # token)

Methods == {"GET", "POST", "PUT"}
Paths == {<<"/api/track">>, <<"/api/address/">>} \cup {<<"/api/address/", a>> : a \in Addr}

\* request bodies: not JSON, or an object with either field present or omitted
Malformed == [syntax |-> "error"]
Bodies ==
    {Malformed}
    \cup {[address |-> a, required_confirmations |-> n] : a \in Addr, n \in -1..MaxReq}
    \cup {[address |-> a] : a \in Addr}

\* json Decode into TrackRequest: an omitted field keeps the zero value
Decode(body) ==
    [Address |-> IF "address" \in DOMAIN body THEN body.address ELSE "",
     RequiredConfirmations |->
         IF "required_confirmations" \in DOMAIN body
         THEN body.required_confirmations ELSE 0]

\* handleTrackAddress: "if req.RequiredConfirmations < 1"
Coerce(n) == IF n < 1 THEN 1 ELSE n

\* a handler that has answered
Done(status, route) ==
    [pc |-> "done", route |-> route, addr |-> "", r |-> 0, resp |-> status, auth |-> TRUE]

\* handleTrackAddress up to the first store call
handleTrackAddress(method, body) ==
    IF method # "POST" THEN Done(405, "track")
    ELSE IF "syntax" \in DOMAIN body THEN Done(400, "track")
    ELSE LET req == Decode(body)
         IN [pc |-> "store", route |-> "track", addr |-> req.Address,
             r |-> Coerce(req.RequiredConfirmations), resp |-> 0, auth |-> TRUE]

\* strings.TrimPrefix(path, "/api/address/")
TrimPrefix(path) == IF Len(path) > 1 THEN path[2] ELSE ""

\* handleGetAddress up to the first store call
handleGetAddress(method, path) ==
    IF method # "GET" THEN Done(405, "get")
    ELSE IF TrimPrefix(path) = "" THEN Done(400, "get")
    ELSE [pc |-> "select", route |-> "get", addr |-> TrimPrefix(path),
          r |-> 0, resp |-> 0, auth |-> TRUE]

\* the header is the word Bearer, one space and the configured token
IsBearer(authHeader, token) == authHeader = <<"Bearer", " ">> \o token

otherApiVars == <<apiToken, newAddrMap, fatal, boot>>

\* what a handler goroutine holds after the middleware and the routed handler
\* have run up to the first store call; the rejecting branch of the middleware
\* reads neither the method, nor the path, nor the body
Serve(authHeader, token) ==
    IF ~authMiddleware(authHeader, token)
    THEN {[Done(401, "") EXCEPT !.auth = IsBearer(authHeader, token)]}
    ELSE {[(IF path[1] = "/api/track"
            THEN handleTrackAddress(method, body)
            ELSE handleGetAddress(method, path))
           EXCEPT !.auth = IsBearer(authHeader, token)] :
             method \in Methods, path \in Paths, body \in Bodies}

\* the outcomes of Serve over every request, by configured token
Served == [token \in Tokens |-> UNION {Serve(authHeader, token) : authHeader \in Headers}]

\* a request arrives at an idle handler goroutine
Request(h) ==
    /\ ~fatal
    /\ http[h].pc \in {"idle", "done"}
    /\ \E served \in Served[apiToken] :
          http' = [http EXCEPT ![h] = served]
    /\ UNCHANGED <<storeVars, ingestVars, mempoolVars, early, otherApiVars, dogeVars, haltVars>>

\* handleTrackAddress: GetOrCreateAddressWithDetails, one statement of the store
TrackStore(h) ==
    /\ ~fatal
    /\ http[h].pc = "store"
    /\ tracked_addresses' =
          IF http[h].addr \in DOMAIN tracked_addresses THEN tracked_addresses
          ELSE tracked_addresses
                 @@ (http[h].addr :> [required_confirmations |-> http[h].r,
                                      balance |-> 0])
    /\ http' = [http EXCEPT ![h].pc = "addaddress"]
    /\ UNCHANGED <<transactions, unspent_outputs, block_tracker, ingestVars,
                   mempoolVars, early, otherApiVars, dogeVars, haltVars>>

\* AddAddress: "SELECT id, required_confirmations FROM tracked_addresses"
AddAddressSelect(h) ==
    /\ ~fatal
    /\ http[h].pc = "addaddress"
    /\ http' = IF http[h].addr \in DOMAIN tracked_addresses
               THEN [http EXCEPT ![h].pc = "write",
                                 ![h].r = tracked_addresses[http[h].addr].required_confirmations]
               ELSE [http EXCEPT ![h].pc = "respond"]
    /\ UNCHANGED <<storeVars, ingestVars, mempoolVars, early, otherApiVars, dogeVars, haltVars>>

\* the accesses to MempoolTracker.trackedAddrs under way: writes of AddAddress
\* on the handler goroutines, the replacement and the lookups of the mempool task
MapWriters == {h \in Handlers : http[h].pc = "writing"}
MempoolAccess == mpPc \in {"replace", "lookup"}

\* the write of handler h overlaps another access, or an access of the
\* mempool task overlaps a write: the runtime may stop the process with
\* "fatal error: concurrent map writes" or let the access through
RacingWrite(h) == MempoolAccess \/ MapWriters \ {h} # {}
RacingMempool == MapWriters # {}

RaceOutcomes(racing) == IF racing THEN BOOLEAN ELSE {FALSE}

\* AddAddress: "t.trackedAddrs[address] = ..." begins
AddAddressWrite(h) ==
    /\ ~fatal
    /\ http[h].pc = "write"
    /\ http' = [http EXCEPT ![h].pc = "writing"]
    /\ UNCHANGED <<storeVars, ingestVars, mempoolVars, early, otherApiVars, dogeVars, haltVars>>

\* AddAddress: the map write completes
AddAddressWritten(h) ==
    /\ ~fatal
    /\ http[h].pc = "writing"
    /\ fatal' \in RaceOutcomes(RacingWrite(h))
    /\ mpAddrs' = (http[h].addr :> http[h].r) @@
                  [a \in DOMAIN mpAddrs \ {http[h].addr} |-> mpAddrs[a]]
    /\ http' = [http EXCEPT ![h].pc = "respond"]
    /\ UNCHANGED <<storeVars, ingestVars, mpPc, mpQueue, ticks, early,
                   apiToken, newAddrMap, boot, dogeVars, haltVars>>

\* handleTrackAddress: the response is encoded, status 200
TrackRespond(h) ==
    /\ ~fatal
    /\ http[h].pc = "respond"
    /\ http[h].route = "track"
    /\ http' = [http EXCEPT ![h] = Done(200, "track")]
    /\ UNCHANGED <<storeVars, ingestVars, mempoolVars, early, otherApiVars, dogeVars, haltVars>>

\* GetOrCreateAddress: the SELECT by address
GetOrCreateSelect(h) ==
    /\ ~fatal
    /\ http[h].pc = "select"
    /\ http' = IF http[h].addr \in DOMAIN tracked_addresses
               THEN [http EXCEPT ![h].pc = "respond"]
               ELSE [http EXCEPT ![h].pc = "insert"]
    /\ UNCHANGED <<storeVars, ingestVars, mempoolVars, early, otherApiVars, dogeVars, haltVars>>

\* GetOrCreateAddress: the INSERT after sql.ErrNoRows; address is unique, so the
\* INSERT of an address that is there by now fails and the handler answers 500
GetOrCreateInsert(h) ==
    /\ ~fatal
    /\ http[h].pc = "insert"
    /\ IF http[h].addr \in DOMAIN tracked_addresses
       THEN /\ http' = [http EXCEPT ![h] = Done(500, "get")]
            /\ UNCHANGED tracked_addresses
       ELSE /\ tracked_addresses' =
                  tracked_addresses
                    @@ (http[h].addr :> [required_confirmations |-> RequiredDefault,
                                         balance |-> 0])
            /\ http' = [http EXCEPT ![h].pc = "respond"]
    /\ UNCHANGED <<transactions, unspent_outputs, block_tracker, ingestVars,
                   mempoolVars, early, otherApiVars, dogeVars, haltVars>>

\* handleGetAddress: the two SELECTs of GetAddressDetails, then the response
GetRespond(h) ==
    /\ ~fatal
    /\ http[h].pc = "respond"
    /\ http[h].route = "get"
    /\ http' = [http EXCEPT ![h] = Done(200, "get")]
    /\ UNCHANGED <<storeVars, ingestVars, mempoolVars, early, otherApiVars, dogeVars, haltVars>>

\* RefreshAddresses: the db.Query and the loop that fills newAddrMap
RefreshQuery ==
    /\ ~fatal
    /\ mpPc = "idle"
    /\ newAddrMap' = AddressMap(tracked_addresses)
    /\ mpPc' = "refresh"
    /\ UNCHANGED <<storeVars, ingestVars, mpAddrs, mpQueue, ticks, early,
                   http, apiToken, fatal, boot, dogeVars, haltVars>>

\* RefreshAddresses: "t.trackedAddrs = newAddrMap" begins
RefreshReplace ==
    /\ ~fatal
    /\ mpPc = "refresh"
    /\ mpPc' = "replace"
    /\ UNCHANGED <<storeVars, ingestVars, mpAddrs, mpQueue, ticks, early, apiVars,
                   dogeVars, haltVars>>

\* RefreshAddresses: the replacement completes
RefreshReplaced ==
    /\ ~fatal
    /\ mpPc = "replace"
    /\ fatal' \in RaceOutcomes(RacingMempool)
    /\ mpAddrs' = newAddrMap
    /\ newAddrMap' = EmptyMap
    /\ mpPc' = "scan"
    /\ UNCHANGED <<storeVars, ingestVars, mpQueue, ticks, early, http, apiToken, boot,
                   dogeVars, haltVars>>

\* checkMempool: a lookup "t.trackedAddrs[addrStr]" begins
MapLookup ==
    /\ ~fatal
    /\ mpPc = "scan"
    /\ mpPc' = "lookup"
    /\ UNCHANGED <<storeVars, ingestVars, mpAddrs, mpQueue, ticks, early, apiVars,
                   dogeVars, haltVars>>

\* checkMempool: the lookup completes; the tick is over
MapLookedUp ==
    /\ ~fatal
    /\ mpPc = "lookup"
    /\ fatal' \in RaceOutcomes(RacingMempool)
    /\ mpPc' = "idle"
    /\ UNCHANGED <<storeVars, ingestVars, mpAddrs, mpQueue, ticks, early,
                   http, apiToken, newAddrMap, boot, dogeVars, haltVars>>

\* the API server over an empty or a one-address store
InitApi ==
    /\ base = 0
    /\ tracked_addresses \in
          {EmptyMap} \cup {("a1" :> [required_confirmations |-> r, balance |-> 0]) :
                              r \in 1..MaxReq}
    /\ transactions = EmptyMap
    /\ unspent_outputs = {}
    /\ block_tracker = NoCursor
    /\ chain = <<>>
    /\ pc = "idle"
    /\ event = NoEvent
    /\ trackedAddrs = EmptyMap
    /\ txIndex = 0
    /\ mpPc = "idle"
    /\ mpAddrs = AddressMap(tracked_addresses)
    /\ mpQueue = <<>>
    /\ reorgs = 0
    /\ ticks = 0
    /\ early = {}
    /\ failed = FALSE
    /\ http = [h \in Handlers |-> IdleHandler]
    /\ apiToken \in Tokens
    /\ newAddrMap = EmptyMap
    /\ fatal = FALSE
    /\ boot = Running
    /\ DogeIdle
    /\ NotHalted

ApiSteps ==
    \E h \in Handlers :
        \/ Request(h)
        \/ TrackStore(h)
        \/ AddAddressSelect(h)
        \/ AddAddressWrite(h)
        \/ AddAddressWritten(h)
        \/ TrackRespond(h)
        \/ GetOrCreateSelect(h)
        \/ GetOrCreateInsert(h)
        \/ GetRespond(h)

MapSteps ==
    \/ RefreshQuery
    \/ RefreshReplace
    \/ RefreshReplaced
    \/ MapLookup
    \/ MapLookedUp

NextApi == ApiSteps \/ MapSteps

SpecApi == InitApi /\ [][NextApi]_vars

----------------------------------------------------------------------------
(* The start of main: the choice of the block the walker resumes from. A     *)
(* string is a sequence of characters over the digits "1", "2" and the       *)
(* letter "a"; DefaultStartBlock abbreviates the hash "1a91e3da...".          *)

Chars == {"1", "2", "a"}
Digit(c) == IF c = "1" THEN 1 ELSE 2
Strings == UNION {[1..n -> Chars] : n \in 0..MaxStartLen}

\* the default of the -start-block flag
DefaultStartBlock == <<"1", "a">>

\* an environment variable or a command-line flag: given or not
Settings == {[set |-> FALSE, value |-> <<>>]} \cup {[set |-> TRUE, value |-> v] : v \in Strings}

\* os.Getenv: the empty string when the variable is not set
Getenv(env) == IF env.set THEN env.value ELSE <<>>

\* getEnvOrDefault
getEnvOrDefault(env, defaultValue) ==
    IF Getenv(env) # <<>> THEN Getenv(env) ELSE defaultValue

\* flag.String after flag.Parse: the flag's value when given, else its default
FlagString(flag, defaultValue) == IF flag.set THEN flag.value ELSE defaultValue

\* strconv.ParseInt(s, 10, 64): no error for a non-empty string of digits
RECURSIVE ParseInt(_)
ParseInt(str) ==
    IF str = <<>> \/ \E i \in DOMAIN str : str[i] = "a" THEN [err |-> TRUE, n |-> 0]
    ELSE IF Len(str) = 1 THEN [err |-> FALSE, n |-> Digit(str[1])]
    ELSE [err |-> FALSE,
          n |-> 10 * ParseInt(SubSeq(str, 1, Len(str) - 1)).n + Digit(str[Len(str)])]

\* the node: the hash of the block at a height, and of the best block
HashAt(height) == <<"block", height>>

\* blockchain.GetBlockHash: fails above the tip
GetBlockHash(height, tip) ==
    IF height > tip THEN [err |-> TRUE, hash |-> <<>>]
    ELSE [err |-> FALSE, hash |-> HashAt(height)]

\* GetLastProcessedBlock: the hash of the cursor row; the empty hash and no
\* error on sql.ErrNoRows
GetLastProcessedBlock(cursor) ==
    IF cursor = "error" THEN [err |-> TRUE, hash |-> <<>>]
    ELSE IF cursor = "none" THEN [err |-> FALSE, hash |-> <<>>]
    ELSE [err |-> FALSE, hash |-> HashAt(CursorHeight)]

\* main: startBlockHash, the ResumeFromBlock handed to the walker
ResumeBlock(b) ==
    LET startBlock == FlagString(b.flag, getEnvOrDefault(b.env, DefaultStartBlock))
        last == GetLastProcessedBlock(b.cursor)
        lastBlockHash == IF last.err
                         THEN (IF b.bestOk THEN HashAt(b.tip) ELSE startBlock)
                         ELSE last.hash
        height == ParseInt(startBlock)
    IN IF startBlock = <<>> THEN lastBlockHash
       ELSE IF ~height.err
            THEN (IF GetBlockHash(height.n, b.tip).err THEN lastBlockHash
                  ELSE GetBlockHash(height.n, b.tip).hash)
            ELSE startBlock

\* the process before main has run: flag, environment, store and node
BootInputs ==
    [phase : {"start"}, flag : Settings, env : Settings,
     cursor : {"none", "row", "error"}, bestOk : BOOLEAN, tip : {CursorHeight, MaxTip},
     resume : {<<>>}]

InitStart ==
    /\ base = 0
    /\ tracked_addresses = EmptyMap
    /\ transactions = EmptyMap
    /\ unspent_outputs = {}
    /\ block_tracker = NoCursor
    /\ chain = <<>>
    /\ pc = "idle"
    /\ event = NoEvent
    /\ trackedAddrs = EmptyMap
    /\ txIndex = 0
    /\ mpPc = "idle"
    /\ mpAddrs = EmptyMap
    /\ mpQueue = <<>>
    /\ reorgs = 0
    /\ ticks = 0
    /\ early = {}
    /\ failed = FALSE
    /\ http = [h \in Handlers |-> IdleHandler]
    /\ apiToken = <<>>
    /\ newAddrMap = EmptyMap
    /\ fatal = FALSE
    /\ boot \in BootInputs
    /\ DogeIdle
    /\ NotHalted

\* main up to "go func()" of the walker: the resume block is chosen
Startup ==
    /\ boot.phase = "start"
    /\ boot' = [boot EXCEPT !.phase = "walking", !.resume = ResumeBlock(boot)]
    /\ UNCHANGED <<storeVars, ingestVars, mempoolVars, early, http, apiToken,
                   newAddrMap, fatal, dogeVars, haltVars>>

SpecStart == InitStart /\ [][Startup]_vars

----------------------------------------------------------------------------
(* package doge: DecodeBlock over byte sequences. A byte is a number 0..255. *)
(* Counts are kept up to Huge: a count at or above it stands for more        *)
(* transactions than any input of the model holds.                           *)

Sat(x) == IF x >= Huge THEN Huge ELSE x

\* binary.LittleEndian over any number of bytes, saturating at Huge
RECURSIVE LittleEndian(_)
LittleEndian(bytes) ==
    IF bytes = <<>> THEN 0 ELSE Sat(bytes[1] + 256 * LittleEndian(Tail(bytes)))

\* uint32(data[0]) | uint32(data[1])<<8 | uint32(data[2])<<16 | uint32(data[3])<<24
Uint32(bytes) == bytes[1] + 256 * bytes[2] + 65536 * bytes[3] + 16777216 * bytes[4]

\* data[from:], from counted from 0
From(data, from) == SubSeq(data, from + 1, Len(data))

\* DecodeVarInt: the value and the number of bytes read, 0 when the bytes run out
DecodeVarInt(data) ==
    IF data = <<>> THEN [value |-> 0, n |-> 0]
    ELSE IF data[1] < 253 THEN [value |-> data[1], n |-> 1]
    ELSE LET width == CASE data[1] = 253 -> 2 [] data[1] = 254 -> 4 [] OTHER -> 8
         IN IF Len(data) < 1 + width THEN [value |-> 0, n |-> 0]
            ELSE [value |-> LittleEndian(SubSeq(data, 2, 1 + width)), n |-> 1 + width]

\* the varint of a count below 0xFD
EncodeVarInt(n) == <<n>>

DecodeFailed == [err |-> TRUE, size |-> 0]

\* the inputs of a transaction: prev_hash[32], prev_index, script, sequence
RECURSIVE DecodeInputs(_, _)
DecodeInputs(data, k) ==
    IF k = 0 THEN [err |-> FALSE, size |-> 0, items |-> <<>>]
    ELSE LET len == DecodeVarInt(From(data, 36))
             size == 36 + len.n + len.value + 4
         IN IF Len(data) < 36 \/ len.n = 0 \/ Len(data) < size THEN DecodeFailed
            ELSE LET rest == DecodeInputs(From(data, size), k - 1)
                 IN IF rest.err THEN DecodeFailed
                    ELSE [err |-> FALSE, size |-> size + rest.size,
                          items |-> <<[prev_hash |-> SubSeq(data, 1, 32),
                                       prev_index |-> SubSeq(data, 33, 36),
                                       script |-> SubSeq(data, 37 + len.n, 36 + len.n + len.value),
                                       sequence |-> SubSeq(data, size - 3, size)]>>
                                    \o rest.items]

\* the outputs of a transaction: value u64, script
RECURSIVE DecodeOutputs(_, _)
DecodeOutputs(data, k) ==
    IF k = 0 THEN [err |-> FALSE, size |-> 0, items |-> <<>>]
    ELSE LET len == DecodeVarInt(From(data, 8))
             size == 8 + len.n + len.value
         IN IF Len(data) < 8 \/ len.n = 0 \/ Len(data) < size THEN DecodeFailed
            ELSE LET rest == DecodeOutputs(From(data, size), k - 1)
                 IN IF rest.err THEN DecodeFailed
                    ELSE [err |-> FALSE, size |-> size + rest.size,
                          items |-> <<[value |-> SubSeq(data, 1, 8),
                                       script |-> SubSeq(data, 9 + len.n, size)]>>
                                    \o rest.items]

\* DecodeTransaction: version, inputs, outputs, lock_time
DecodeTransaction(data) ==
    LET nin == DecodeVarInt(From(data, 4))
    IN IF Len(data) < 4 \/ nin.n = 0 THEN DecodeFailed
       ELSE LET ins == DecodeInputs(From(data, 4 + nin.n), nin.value)
            IN IF ins.err THEN DecodeFailed
               ELSE LET at == 4 + nin.n + ins.size
                        nout == DecodeVarInt(From(data, at))
                    IN IF nout.n = 0 THEN DecodeFailed
                       ELSE LET outs == DecodeOutputs(From(data, at + nout.n), nout.value)
                                size == at + nout.n + outs.size + 4
                            IN IF outs.err \/ Len(data) < size THEN DecodeFailed
                               ELSE [err |-> FALSE, size |-> size,
                                     tx |-> [version |-> SubSeq(data, 1, 4),
                                             vin |-> ins.items,
                                             vout |-> outs.items,
                                             lock_time |-> SubSeq(data, size - 3, size)]]

RECURSIVE Concat(_)
Concat(seqs) == IF seqs = <<>> THEN <<>> ELSE Head(seqs) \o Concat(Tail(seqs))

\* Transaction.Serialize
EncodeTransaction(tx) ==
    tx.version
    \o EncodeVarInt(Len(tx.vin))
    \o Concat([i \in DOMAIN tx.vin |->
                  tx.vin[i].prev_hash \o tx.vin[i].prev_index
                  \o EncodeVarInt(Len(tx.vin[i].script)) \o tx.vin[i].script
                  \o tx.vin[i].sequence])
    \o EncodeVarInt(Len(tx.vout))
    \o Concat([i \in DOMAIN tx.vout |->
                  tx.vout[i].value \o EncodeVarInt(Len(tx.vout[i].script))
                  \o tx.vout[i].script])
    \o tx.lock_time

\* Transaction.SerializeSize
SerializeSize(tx) == Len(EncodeTransaction(tx))

DecodeError == [status |-> "error"]
DecodePanic == [status |-> "panic"]

\* DecodeBlock: the loop "for i := uint64(0); i < txCount; i++" of a regular block
RECURSIVE DecodeLoop(_, _, _, _)
DecodeLoop(data, offset, txCount, txs) ==
    IF Len(txs) >= txCount /\ txCount < Huge THEN [status |-> "ok", txs |-> txs]
    ELSE IF offset > Len(data) THEN DecodePanic
    ELSE LET t == DecodeTransaction(From(data, offset))
         IN IF t.err THEN DecodeError
            ELSE DecodeLoop(data, offset + SerializeSize(t.tx), txCount, Append(txs, t.tx))

\* DecodeBlock; allocated: whether make([]Transaction, txCount) succeeds when
\* txCount is past Huge (it panics or runs out of memory otherwise)
DecodeBlock(data, allocated) ==
    IF Len(data) < 80 THEN DecodeError
    ELSE LET isAuxPow == Uint32(SubSeq(data, 1, 4)) >= AuxPowVersion
             count == DecodeVarInt(From(data, 80))
         IN IF isAuxPow
            THEN IF count.n = 0 THEN DecodeError
                 ELSE IF count.value > 0
                      THEN LET t == DecodeTransaction(From(data, 80 + count.n))
                           IN IF t.err THEN DecodeError
                              ELSE [status |-> "ok", txs |-> <<t.tx>>]
                      ELSE [status |-> "ok", txs |-> <<>>]
            ELSE IF count.n = 0 THEN DecodeError
                 ELSE IF count.value >= Huge /\ ~allocated THEN DecodePanic
                 ELSE DecodeLoop(data, 80 + count.n, count.value, <<>>)

\* n bytes of value b
Bytes(n, b) == [i \in 1..n |-> b]

\* two transactions: a coinbase with one output, and one with two inputs
CoinbaseTx ==
    [version |-> <<1, 0, 0, 0>>,
     vin |-> <<[prev_hash |-> Bytes(32, 0), prev_index |-> Bytes(4, 255),
                script |-> <<3, 7>>, sequence |-> Bytes(4, 255)]>>,
     vout |-> <<[value |-> <<0, 228, 11, 84, 2, 0, 0, 0>>, script |-> <<118, 169, 136>>]>>,
     lock_time |-> Bytes(4, 0)]
SpendTx ==
    [version |-> <<2, 0, 0, 0>>,
     vin |-> <<[prev_hash |-> Bytes(32, 17), prev_index |-> <<0, 0, 0, 0>>,
                script |-> <<>>, sequence |-> Bytes(4, 255)],
               [prev_hash |-> Bytes(32, 34), prev_index |-> <<1, 0, 0, 0>>,
                script |-> <<72>>, sequence |-> Bytes(4, 254)]>>,
     vout |-> <<[value |-> Bytes(8, 1), script |-> <<>>],
                [value |-> Bytes(8, 2), script |-> <<106, 1>>]>>,
     lock_time |-> <<9, 0, 0, 0>>]

\* header versions: 1, 0x620004, 0x1FFFFFFF, 0x20000000, 0x20620102, 0x7F000000
Versions ==
    {<<1, 0, 0, 0>>, <<4, 0, 98, 0>>, <<255, 255, 255, 31>>, <<0, 0, 0, 32>>,
     <<2, 1, 98, 32>>, <<0, 0, 0, 127>>}

\* transaction counts and their varints, canonical or not
Counts ==
    {[n |-> k, bytes |-> <<k>>] : k \in 0..MaxCount}
    \cup {[n |-> 2, bytes |-> <<253, 2, 0>>],
          [n |-> 1, bytes |-> <<254, 1, 0, 0, 0>>],
          [n |-> Huge, bytes |-> <<254, 0, 0, 0, 64>>],
          [n |-> Huge, bytes |-> <<255>> \o Bytes(8, 255)]}

\* bytes after the last transaction: none, or data that is no transaction
Trailers == {<<>>, Bytes(6, 255)}

\* the bytes of a block put together from its parts
Assemble(version, count, txs, trailer) ==
    version \o Bytes(76, 0) \o count.bytes
    \o Concat([i \in DOMAIN txs |-> EncodeTransaction(txs[i])]) \o trailer

\* lengths an input is cut to: whole, and short of it by a few bytes or by much
Cuts(len) == {len} \cup {l \in {len - 1, len - 7, len - 60, 81, 80, 79, 0} : l >= 0 /\ l < len}

\* up to MaxTxs transactions in a row
TxSeqs == UNION {[1..k -> {CoinbaseTx, SpendTx}] : k \in 0..MaxTxs}

\* the bytes handed to DecodeBlock for a header version, with the parts they
\* were put together from
BlockInputs(version) ==
    UNION {{[bytes |-> SubSeq(Assemble(version, x[1], x[2], x[3]), 1, l),
             version |-> version, count |-> x[1], txs |-> x[2], trailer |-> x[3]] :
               l \in Cuts(Len(Assemble(version, x[1], x[2], x[3])))} :
           x \in Counts \X TxSeqs \X Trailers}

InitCodec ==
    /\ base = 0
    /\ tracked_addresses = EmptyMap
    /\ transactions = EmptyMap
    /\ unspent_outputs = {}
    /\ block_tracker = NoCursor
    /\ chain = <<>>
    /\ pc = "idle"
    /\ event = NoEvent
    /\ trackedAddrs = EmptyMap
    /\ txIndex = 0
    /\ mpPc = "idle"
    /\ mpAddrs = EmptyMap
    /\ mpQueue = <<>>
    /\ reorgs = 0
    /\ ticks = 0
    /\ early = {}
    /\ failed = FALSE
    /\ http = [h \in Handlers |-> IdleHandler]
    /\ apiToken = <<>>
    /\ newAddrMap = EmptyMap
    /\ fatal = FALSE
    /\ boot = Running
    /\ \E version \in Versions : blockData \in BlockInputs(version)
    /\ decoded = [status |-> "none"]
    /\ node = [connected |-> FALSE]
    /\ startCall = "none"
    /\ fetchCall = "none"
    /\ wire = [in |-> <<>>, out |-> <<>>]
    /\ call = [fn |-> "none"]
    /\ NotHalted

\* a call of DecodeBlock on the bytes
CallDecodeBlock ==
    /\ decoded.status = "none"
    /\ \E allocated \in BOOLEAN : decoded' = DecodeBlock(blockData.bytes, allocated)
    /\ UNCHANGED <<storeVars, ingestVars, mempoolVars, early, apiVars, blockData,
                   node, startCall, fetchCall, wire, haltVars, call>>

SpecCodec == InitCodec /\ [][CallDecodeBlock]_vars

----------------------------------------------------------------------------
(* package doge: the SPV node, its peer and the callers of Start and         *)
(* GetBlockTransactions.                                                     *)
(* node: connected (conn is open), loop (handleMessages), currentHeight,     *)
(* chainTip (height of the header it points to, 0 for nil), stored (headers  *)
(* given to db.StoreBlock), headerSyncComplete.                              *)
(* wire: in (messages of the peer not yet read), log (every message read or  *)
(* written, in order), sent (messages the peer has sent).                    *)

Msg(cmd, payload) == [cmd |-> cmd, payload |-> payload, count |-> 0, held |-> 0, bad |-> 0]

\* a headers message: count announced, headers held, first header that
\* validateHeader rejects (0: none)
HeadersMsg(count, held, bad) ==
    [cmd |-> "headers", payload |-> 0, count |-> count, held |-> held, bad |-> bad]

Nonces == 1..MaxNonce
BlockHashes == 1..MaxHashes

PeerMsgs ==
    {Msg("version", 0), Msg("verack", 0), Msg("sendheaders", 0)}
    \cup {Msg("ping", p) : p \in Nonces}
    \cup {Msg("block", h) : h \in BlockHashes}
    \cup {HeadersMsg(0, 0, 0), HeadersMsg(MaxBatch, MaxBatch - 1, 0),
          HeadersMsg(MaxHeadersResults, MaxHeadersResults, 0),
          HeadersMsg(2 * MaxHeadersResults, 2 * MaxHeadersResults, 0)}
    \cup {HeadersMsg(MaxBatch, MaxBatch, b) : b \in 0..MaxBatch}

Read(m) == [dir |-> "in", by |-> "peer", cmd |-> m.cmd, payload |-> m.payload]
Written(by, cmd, payload) == [dir |-> "out", by |-> by, cmd |-> cmd, payload |-> payload]

InitSpv ==
    /\ base = 0
    /\ tracked_addresses = EmptyMap
    /\ transactions = EmptyMap
    /\ unspent_outputs = {}
    /\ block_tracker = NoCursor
    /\ chain = <<>>
    /\ pc = "idle"
    /\ event = NoEvent
    /\ trackedAddrs = EmptyMap
    /\ txIndex = 0
    /\ mpPc = "idle"
    /\ mpAddrs = EmptyMap
    /\ mpQueue = <<>>
    /\ reorgs = 0
    /\ ticks = 0
    /\ early = {}
    /\ failed = FALSE
    /\ http = [h \in Handlers |-> IdleHandler]
    /\ apiToken = <<>>
    /\ newAddrMap = EmptyMap
    /\ fatal = FALSE
    /\ boot = Running
    /\ blockData = <<>>
    /\ decoded = [status |-> "none"]
    /\ node = [connected |-> TRUE, loop |-> "off", currentHeight |-> StartHeight,
               chainTip |-> 0, stored |-> 0, headerSyncComplete |-> FALSE]
    /\ startCall = "none"
    /\ fetchCall = [pc |-> "none", hash |-> 0]
    /\ wire = [in |-> <<>>, log |-> <<>>, sent |-> 0]
    /\ call = [fn |-> "none"]
    /\ NotHalted

spvFrame == <<storeVars, ingestVars, mempoolVars, early, apiVars, blockData, decoded, haltVars,
              call>>

\* the peer writes a message
PeerSend(m) ==
    /\ node.connected
    /\ wire.sent < MaxPeerMsgs
    /\ wire' = [wire EXCEPT !.in = Append(@, m), !.sent = @ + 1]
    /\ UNCHANGED <<spvFrame, node, startCall, fetchCall>>

\* Start, to the end of sendVersionMessage
SpvStart ==
    /\ startCall = "none"
    /\ node' = [node EXCEPT !.loop = "running"]
    /\ IF node.connected
       THEN /\ wire' = [wire EXCEPT !.log = Append(@, Written("start", "version", 0))]
            /\ startCall' = "sent"
       ELSE /\ startCall' = "failed"
            /\ UNCHANGED wire
    /\ UNCHANGED <<spvFrame, fetchCall>>

\* Start reaches its select
StartWait ==
    /\ startCall = "sent"
    /\ startCall' = "waiting"
    /\ UNCHANGED <<spvFrame, node, fetchCall, wire>>

\* a select whose timer case starts header sync as well
StartSelect_SyncAnyway(case) == "handshaken"

\* the select of Start: the case taken decides how Start goes on
StartSelect(case) == IF case = "verack" THEN "handshaken" ELSE "timeout"

\* time.After(10 * time.Second) fires
StartTimeout ==
    /\ startCall = "waiting"
    /\ startCall' = StartSelect("timer")
    /\ UNCHANGED <<spvFrame, node, fetchCall, wire>>

\* startHeaderSync, and the return of Start
StartHeaderSync ==
    /\ startCall = "handshaken"
    /\ IF node.connected
       THEN /\ wire' = [wire EXCEPT !.log = Append(@, Written("start", "getheaders", node.stored))]
            /\ startCall' = "returned"
       ELSE /\ startCall' = "failed"
            /\ UNCHANGED wire
    /\ UNCHANGED <<spvFrame, node, fetchCall>>

\* handleMessages has a message to read
Reading(cmds) ==
    /\ node.loop = "running"
    /\ node.connected
    /\ wire.in # <<>>
    /\ Head(wire.in).cmd \in cmds

\* handleMessages: readMessage fails on the closed connection
LoopReturn ==
    /\ node.loop = "running"
    /\ ~node.connected
    /\ node' = [node EXCEPT !.loop = "returned"]
    /\ UNCHANGED <<spvFrame, startCall, fetchCall, wire>>

\* case MsgVersion: handleVersionMessage answers with verack
HandleVersion ==
    /\ Reading({"version"})
    /\ wire' = [wire EXCEPT !.in = Tail(@),
                            !.log = @ \o <<Read(Head(wire.in)), Written("loop", "verack", 0)>>]
    /\ UNCHANGED <<spvFrame, node, startCall, fetchCall>>

\* case MsgVerack: the signal is passed only to a Start waiting in its select
HandleVerack ==
    /\ Reading({"verack"})
    /\ wire' = [wire EXCEPT !.in = Tail(@), !.log = Append(@, Read(Head(wire.in)))]
    /\ startCall' = IF startCall = "waiting" THEN StartSelect("verack") ELSE startCall
    /\ UNCHANGED <<spvFrame, node, fetchCall>>

\* bytes of the count at the head of a headers payload
VarIntSize(count) == IF count < 253 THEN 1 ELSE 3

Min(a, b) == IF a < b THEN a ELSE b

\* handleHeadersMessage: headers stored before it returns. The headers are
\* read from offset 1; past a count of one byte they are read 2 bytes early,
\* and shiftedValid says whether validateHeader accepts what is read there.
HeadersDone(m, shiftedValid) ==
    LET firstBad == IF VarIntSize(m.count) = 1 THEN m.bad
                    ELSE IF shiftedValid THEN 0 ELSE 1
        present == Min(m.count, m.held)
    IN IF firstBad # 0 /\ firstBad <= present THEN firstBad - 1 ELSE present

\* case MsgHeaders: handleHeadersMessage; its error is logged
HandleHeaders ==
    /\ Reading({"headers"})
    /\ \E shiftedValid \in BOOLEAN :
         LET m == Head(wire.in)
             done == HeadersDone(m, shiftedValid)
             err == done < m.count
             height == node.currentHeight + done
             more == ~err /\ m.count = MaxHeadersResults
         IN /\ node' = [node EXCEPT
                          !.currentHeight = height,
                          !.stored = @ + done,
                          !.chainTip = IF done > 0 THEN height ELSE @,
                          !.headerSyncComplete =
                              IF m.count = 0 \/ (~err /\ ~more) THEN TRUE ELSE @]
            /\ wire' = [wire EXCEPT
                          !.in = Tail(@),
                          !.log = @ \o <<Read(m)>>
                                    \o IF more THEN <<Written("loop", "getheaders", height)>>
                                       ELSE <<>>]
    /\ UNCHANGED <<spvFrame, startCall, fetchCall>>

\* handleBlockMessage: the block is parsed and logged
HandleBlock ==
    /\ Reading({"block"})
    /\ wire' = [wire EXCEPT !.in = Tail(@), !.log = Append(@, Read(Head(wire.in)))]
    /\ UNCHANGED <<spvFrame, node, startCall, fetchCall>>

\* a pong that carries a nonce of its own
sendPongMessage_OwnNonce(nonce) == Written("loop", "pong", 1)

\* sendPongMessage
sendPongMessage(nonce) == Written("loop", "pong", nonce)

\* case MsgPing: handlePingMessage
HandlePing ==
    /\ Reading({"ping"})
    /\ wire' = [wire EXCEPT
                  !.in = Tail(@),
                  !.log = @ \o <<Read(Head(wire.in)), sendPongMessage(Head(wire.in).payload)>>]
    /\ UNCHANGED <<spvFrame, node, startCall, fetchCall>>

\* case "sendheaders", "sendcmpct", "feefilter": logged only
HandleIgnored ==
    /\ Reading({"sendheaders"})
    /\ wire' = [wire EXCEPT !.in = Tail(@), !.log = Append(@, Read(Head(wire.in)))]
    /\ UNCHANGED <<spvFrame, node, startCall, fetchCall>>

\* GetBlockTransactions, to its select
FetchBegin(h) ==
    /\ fetchCall.pc = "none"
    /\ IF node.connected
       THEN /\ wire' = [wire EXCEPT !.log = Append(@, Written("fetch", "getdata", h))]
            /\ fetchCall' = [pc |-> "waiting", hash |-> h]
       ELSE /\ fetchCall' = [pc |-> "failed", hash |-> h]
            /\ UNCHANGED wire
    /\ UNCHANGED <<spvFrame, node, startCall>>

\* GetBlockTransactions: time.After(30 * time.Second) fires
FetchTimeout ==
    /\ fetchCall.pc = "waiting"
    /\ fetchCall' = [fetchCall EXCEPT !.pc = "timeout"]
    /\ UNCHANGED <<spvFrame, node, startCall, wire>>

\* Stop
SpvStop ==
    /\ node.connected
    /\ node' = [node EXCEPT !.connected = FALSE]
    /\ UNCHANGED <<spvFrame, startCall, fetchCall, wire>>

NextSpv ==
    \/ \E m \in PeerMsgs : PeerSend(m)
    \/ SpvStart
    \/ StartWait
    \/ StartTimeout
    \/ StartHeaderSync
    \/ LoopReturn
    \/ HandleVersion
    \/ HandleVerack
    \/ HandleHeaders
    \/ HandleBlock
    \/ HandlePing
    \/ HandleIgnored
    \/ \E h \in BlockHashes : FetchBegin(h)
    \/ FetchTimeout
    \/ SpvStop

SpecSpv == InitSpv /\ [][NextSpv]_vars

----------------------------------------------------------------------------
(* Functions checked call by call: call holds the name of the function, its  *)
(* arguments, whether it has returned (done) and what it returned (ret).     *)

callFrame == <<storeVars, ingestVars, mempoolVars, early, apiVars, blockData, decoded,
               node, startCall, fetchCall, wire, haltVars>>

\* ProcessBlockTransactions: tx.VIn. A coinbase has one input, which spends
\* no transaction.
CoinbaseIn == In("null", 0)
VIn(t) == IF Tx(t).vin = <<>> THEN <<CoinbaseIn>> ELSE Tx(t).vin

\* ProcessBlockTransactions: "Sum all inputs". served: the transactions
\* GetRawTransaction returns; emptyTxID: the coinbase input has an empty TxID
RECURSIVE TotalInputs(_, _, _)
TotalInputs(vin, served, emptyTxID) ==
    IF vin = <<>> THEN 0
    ELSE LET in == Head(vin)
             rest == TotalInputs(Tail(vin), served, emptyTxID)
         IN IF in = CoinbaseIn /\ emptyTxID THEN rest
            ELSE IF in.txid \notin served THEN rest
            ELSE IF in.vout < Len(Tx(in.txid).vout) THEN PrevOut(in).value + rest
            ELSE rest

\* ProcessBlockTransactions: "Sum all outputs"
RECURSIVE TotalOutputs(_)
TotalOutputs(vout) ==
    IF vout = <<>> THEN 0 ELSE Head(vout).value + TotalOutputs(Tail(vout))

\* ProcessBlockTransactions: "Calculate transaction fee"
Fee(t, served, emptyTxID) ==
    IF Len(VIn(t)) > 0
    THEN TotalInputs(VIn(t), served, emptyTxID) - TotalOutputs(Tx(t).vout)
    ELSE 0

FeeCalls ==
    {[fn |-> "fee", tx |-> t, served |-> sv, emptyTxID |-> e, done |-> FALSE, ret |-> 0] :
        t \in TxIds, sv \in SUBSET {"T1", "T2", Ext}, e \in BOOLEAN}

\* the fee of one block transaction is computed
CalcFee ==
    /\ call.fn = "fee"
    /\ ~call.done
    /\ call' = [call EXCEPT !.done = TRUE,
                            !.ret = Fee(call.tx, call.served, call.emptyTxID)]
    /\ UNCHANGED callFrame

\* heights of a stored row and of the block being connected
RefreshHeights == (1..MaxRowHeight) \cup {MaxConfirmations + MaxRowHeight}

\* a store holding one row of a1, written by the connect of a block at the height
StoredRow(block_height) ==
    AddTransaction(EmptyMap, "a1", "T1", BlockRow(OldHash, block_height, 5, TRUE))

RefreshCalls ==
    {[fn |-> "refresh", stmt |-> st, height |-> h, block_height |-> b,
      done |-> FALSE, ret |-> 0] :
        st \in {"bulk", "row"}, h \in RefreshHeights, b \in RefreshHeights}

\* the confirmations the connect of a block at call.height writes to the row:
\* by the bulk UPDATE at the top of ProcessBlockTransactions, or by the UPDATE
\* of the row a transaction of the block already has
RefreshConfirmations ==
    /\ call.fn = "refresh"
    /\ ~call.done
    /\ LET txs == StoredRow(call.block_height)
           after == IF call.stmt = "bulk"
                    THEN BulkConfirmationUpdate(txs, call.height, "a1" :> RequiredDefault)
                    ELSE UpdateExistingTransaction(txs, <<"a1", "T1">>, OldHash, call.height,
                                                   HeaderTime(call.height), RequiredDefault)
       IN call' = [call EXCEPT !.done = TRUE,
                               !.ret = after[<<"a1", "T1">>].confirmations]
    /\ UNCHANGED callFrame

\* the store before the connect of a block holding T5, which spends the
\* output T1 paid to a1 and pays a1 again; pending: the mempool tracker has
\* recorded T5 for a1 already
ChangeStore(pending) ==
    [transactions |->
        IF pending
        THEN AddTransaction(StoredRow(OldHeight), "a1", "T5",
                            PendingRow(Match("a1", "T5", 4, TRUE)))
        ELSE StoredRow(OldHeight),
     unspent_outputs |-> AddUnspentOutput({}, "a1", "T1", 0, 5)]

ChangeCalls ==
    {[fn |-> "change", pending |-> p, required |-> r, done |-> FALSE,
      outputs |-> ChangeStore(p), ret |-> ChangeStore(p)] :
        p \in BOOLEAN, r \in 1..MaxReq}

\* the loop body of ProcessBlockTransactions for T5: outputs holds the tables
\* after the outputs loop, ret the tables after the inputs loop
ConnectChange ==
    /\ call.fn = "change"
    /\ ~call.done
    /\ LET ev == ConnectEvent(<<"T5">>)
           addrMap == "a1" :> call.required
       IN call' = [call EXCEPT
                     !.done = TRUE,
                     !.outputs = ProcessOutputs(ChangeStore(call.pending), "T5", 1, ev, addrMap),
                     !.ret = ProcessTx(ChangeStore(call.pending), "T5", ev, addrMap)]
    /\ UNCHANGED callFrame

\* headers a peer can send: H2 and F2 both follow H1, O follows a block that
\* was never sent, V0 has version 0
HeaderOf(hash) ==
    CASE hash = "H1" -> [hash |-> "H1", version |-> 1, prev_block |-> "G"]
      [] hash = "H2" -> [hash |-> "H2", version |-> 1, prev_block |-> "H1"]
      [] hash = "F2" -> [hash |-> "F2", version |-> 1, prev_block |-> "H1"]
      [] hash = "H3" -> [hash |-> "H3", version |-> 1, prev_block |-> "H2"]
      [] hash = "O"  -> [hash |-> "O", version |-> 1, prev_block |-> "U"]
      [] hash = "V0" -> [hash |-> "V0", version |-> 0, prev_block |-> "H1"]

HeaderHashes == {"H1", "H2", "F2", "H3", "O", "V0"}

HeaderBatches ==
    UNION {[1..n -> {HeaderOf(h) : h \in HeaderHashes}] : n \in 1..MaxBatch}

\* validateHeader, for a timestamp and a proof of work that pass
validateHeader(header, currentHeight, blocks) ==
    IF header.version < 1 THEN "invalid version"
    ELSE IF currentHeight > 0 /\ header.prev_block \notin DOMAIN blocks
         THEN "previous block not found"
         ELSE "nil"

\* StoreBlock: INSERT INTO blocks ... ON CONFLICT (hash) DO NOTHING
StoreBlock(blocks, header, height) ==
    IF header.hash \in DOMAIN blocks THEN blocks
    ELSE (header.hash :> [height |-> height, prev_block |-> header.prev_block])
            @@ blocks

\* handleHeadersMessage: the loop over the headers of one message
RECURSIVE StoreHeaders(_, _, _)
StoreHeaders(c, batch, i) ==
    IF i > Len(batch) THEN [c EXCEPT !.ret = "nil"]
    ELSE LET err == validateHeader(batch[i], c.currentHeight, c.blocks)
         IN IF err # "nil" THEN [c EXCEPT !.ret = err]
            ELSE StoreHeaders(
                    [c EXCEPT !.currentHeight = @ + 1,
                              !.blocks = StoreBlock(@, batch[i], c.currentHeight + 1),
                              !.chainTip = batch[i].hash],
                    batch, i + 1)

\* a node started at height 0 with an empty blocks table
HeaderCalls ==
    {[fn |-> "headers", currentHeight |-> 0, chainTip |-> "nil", blocks |-> EmptyMap,
      msgs |-> 0, done |-> FALSE, ret |-> "nil"]}

\* case MsgHeaders: handleHeadersMessage on one message
StoreHeadersMessage(batch) ==
    /\ call.fn = "headers"
    /\ call.msgs < MaxHeaderMsgs
    /\ call' = StoreHeaders([call EXCEPT !.msgs = @ + 1, !.done = TRUE], batch, 1)
    /\ UNCHANGED callFrame


\* an inv payload: the count it announces and the items it holds
InvTypes == 1..3
InvHashes == {"b1", "b2"}
InvItem(type, hash) == [type |-> type, hash |-> hash]

InvPayloads ==
    {[count |-> c, items |-> s] :
        c \in 0..MaxInvItems,
        s \in UNION {[1..n -> {InvItem(t, h) : t \in InvTypes, h \in InvHashes}] :
                        n \in 0..MaxInvItems}}

\* a slice expression buf[lo:hi] on a buffer of the capacity
SliceInRange(lo, hi, capacity) == lo <= hi /\ hi <= capacity

\* sendGetDataMessage: make([]byte, 37), then payload[0:4], payload[4:8],
\* payload[8:40]
sendGetDataMessage(invType, hash) ==
    IF /\ SliceInRange(0, 4, GetDataLen)
       /\ SliceInRange(4, 8, GetDataLen)
       /\ SliceInRange(8, GetDataHashEnd, GetDataLen)
    THEN [status |-> "sent", payload |-> [count |-> 1, type |-> invType, hash |-> hash]]
    ELSE [status |-> "panic"]

\* handleInvMessage: the loop over the announced items
RECURSIVE handleInvMessage(_, _, _)
handleInvMessage(payload, i, sent) ==
    IF i > payload.count THEN [status |-> "nil", sent |-> sent]
    ELSE IF i > Len(payload.items) THEN [status |-> "error", sent |-> sent]
    ELSE LET item == payload.items[i]
         IN IF item.type \in {1, 2}
            THEN LET r == sendGetDataMessage(item.type, item.hash)
                 IN IF r.status = "panic" THEN [status |-> "panic", sent |-> sent]
                    ELSE handleInvMessage(payload, i + 1, Append(sent, r.payload))
            ELSE handleInvMessage(payload, i + 1, sent)

InvCalls ==
    {[fn |-> "inv", payload |-> p, done |-> FALSE, ret |-> [status |-> "nil", sent |-> <<>>]] :
        p \in InvPayloads}

\* case MsgInv: handleInvMessage on one payload
HandleInv ==
    /\ call.fn = "inv"
    /\ ~call.done
    /\ call' = [call EXCEPT !.done = TRUE, !.ret = handleInvMessage(call.payload, 1, <<>>)]
    /\ UNCHANGED callFrame


\* binary.LittleEndian.PutUint32
PutUint32(v) == <<v % 256, (v \div 256) % 256, (v \div 65536) % 256, v \div 16777216>>

\* binary.PutUvarint: seven bits a byte, the high bit set on all but the last
RECURSIVE PutUvarint(_)
PutUvarint(x) == IF x < 128 THEN <<x>> ELSE <<128 + (x % 128)>> \o PutUvarint(x \div 128)

\* ReadVarInt: the value alone, not the number of bytes it took
ReadVarInt(payload) ==
    IF payload = <<>> THEN [err |-> "empty payload", value |-> 0]
    ELSE LET width == CASE payload[1] < 253 -> 0 [] payload[1] = 253 -> 2
                        [] payload[1] = 254 -> 4 [] OTHER -> 8
         IN IF width = 0 THEN [err |-> "nil", value |-> payload[1]]
            ELSE IF Len(payload) < 1 + width
                 THEN [err |-> "payload too short", value |-> 0]
                 ELSE [err |-> "nil", value |-> LittleEndian(SubSeq(payload, 2, 1 + width))]

\* two headers that differ in every field; every byte is below 128, so that a
\* field read at a shifted offset stays below 2^31
BlockHeader(b) ==
    [Version |-> b, PrevBlock |-> Bytes(32, 16 + b), MerkleRoot |-> Bytes(32, 32 + b),
     Time |-> 100 + b, Bits |-> 50 + b, Nonce |-> 70 + b]

\* k headers, for every choice of a short list and one choice of a long list
HeaderLists(k) ==
    IF k <= MaxBatch THEN [1..k -> {BlockHeader(1), BlockHeader(2)}]
    ELSE {[i \in 1..k |-> BlockHeader(1 + (i % 2))]}

HeaderCounts == (0..MaxBatch) \cup {TwoByteUvarint, ThreeByteVarInt}

\* sendHeadersMessage: the bytes appended for one header, the trailing
\* transaction count included
HeaderBytes(header) ==
    PutUint32(header.Version) \o header.PrevBlock \o header.MerkleRoot
    \o PutUint32(header.Time) \o PutUint32(header.Bits) \o PutUint32(header.Nonce)
    \o <<0>>

\* sendHeadersMessage: the payload it builds, byte by byte
sendHeadersMessage(headers) ==
    LET countBytes == PutUvarint(Len(headers))
        each == [i \in DOMAIN headers |-> HeaderBytes(headers[i])]
    IN countBytes
       \o [j \in 1..(81 * Len(headers)) |-> each[1 + ((j - 1) \div 81)][1 + ((j - 1) % 81)]]

\* handleHeadersMessage: the header read from payload[offset : offset+80]
ParseHeader(headerData) ==
    [Version |-> Uint32(SubSeq(headerData, 1, 4)),
     PrevBlock |-> SubSeq(headerData, 5, 36),
     MerkleRoot |-> SubSeq(headerData, 37, 68),
     Time |-> Uint32(SubSeq(headerData, 69, 72)),
     Bits |-> Uint32(SubSeq(headerData, 73, 76)),
     Nonce |-> Uint32(SubSeq(headerData, 77, 80))]

\* handleHeadersMessage: the headers it reads, before any is validated. The
\* loop starts at offset 1, advances by 80 and stops with an error at the
\* first header that does not fit.
ParseHeaders(payload) ==
    LET count == ReadVarInt(payload)
        fit == (Len(payload) - 1) \div 80
        n == IF count.value < fit THEN count.value ELSE fit
    IN IF count.err # "nil" THEN [err |-> count.err, headers |-> <<>>]
       ELSE [err |-> IF n < count.value THEN "partial headers message received"
                     ELSE "nil",
             headers |-> [i \in 1..n |->
                            ParseHeader(SubSeq(payload, 2 + 80 * (i - 1), 1 + 80 * i))]]

HeadersCalls(k) ==
    {[fn |-> "roundtrip", headers |-> hs, done |-> FALSE,
      ret |-> [err |-> "nil", headers |-> <<>>]] : hs \in HeaderLists(k)}

\* sendHeadersMessage builds the payload, handleHeadersMessage reads it
HeadersRoundTrip ==
    /\ call.fn = "roundtrip"
    /\ ~call.done
    /\ call' = [call EXCEPT !.done = TRUE,
                            !.ret = ParseHeaders(sendHeadersMessage(call.headers))]
    /\ UNCHANGED callFrame


\* sha256.Sum256 twice, first four bytes: the SHA-256 function is replaced by
\* a function that gives four bytes determined by the bytes hashed
RECURSIVE SumBytes(_)
SumBytes(input) == IF input = <<>> THEN 0 ELSE Head(input) + SumBytes(Tail(input))

checksum(input) ==
    LET s == SumBytes(input)
    IN <<s % 256, (s \div 256) % 256, Len(input), (s + 7 * Len(input)) % 256>>

\* base58.Encode: a string that stands for the bytes it decodes to
Base58Encode(b) == [base58 |-> b]
Base58Decode(address) == address.base58

\* Base58CheckEncode: version, input, checksum of both
Base58CheckEncode(input, version) ==
    LET b == <<version>> \o input
    IN Base58Encode(b \o checksum(b))

\* ExtractAddresses
ExtractAddresses(script) ==
    IF Len(script) < 23 THEN <<>>
    ELSE IF /\ Len(script) = 25 /\ script[1] = 118 /\ script[2] = 169
            /\ script[3] = 20 /\ script[24] = 136 /\ script[25] = 172
    THEN LET data == <<30>> \o SubSeq(script, 4, 23)
             final == data \o checksum(data)
         IN <<Base58CheckEncode(final, 30)>>
    ELSE IF Len(script) = 23 /\ script[1] = 169 /\ script[2] = 20 /\ script[23] = 135
    THEN LET data == <<22>> \o SubSeq(script, 3, 22)
             final == data \o checksum(data)
         IN <<Base58CheckEncode(final, 22)>>
    ELSE <<>>

\* scripts: pay to public key hash, pay to script hash, and others
P2PKH(hash) == <<118, 169, 20>> \o hash \o <<136, 172>>
P2SH(hash) == <<169, 20>> \o hash \o <<135>>
Hashes == {Bytes(20, 1), Bytes(20, 200), [i \in 1..20 |-> i]}

Scripts ==
    {P2PKH(h) : h \in Hashes} \cup {P2SH(h) : h \in Hashes}
    \cup {<<>>, <<106>>, Bytes(22, 0), Bytes(23, 0), Bytes(24, 118), Bytes(25, 118),
          P2PKH(Bytes(20, 1)) \o <<0>>, P2SH(Bytes(20, 1)) \o <<0>>,
          <<169, 20>> \o Bytes(20, 1) \o <<136>>,
          <<118, 169, 20>> \o Bytes(20, 1) \o <<136, 135>>,
          <<0, 20>> \o Bytes(20, 1), <<65>> \o Bytes(65, 4) \o <<172>>}

ExtractCalls ==
    {[fn |-> "extract", script |-> s, done |-> FALSE, ret |-> <<>>] : s \in Scripts}

\* a call of ExtractAddresses
Extract ==
    /\ call.fn = "extract"
    /\ ~call.done
    /\ call' = [call EXCEPT !.done = TRUE, !.ret = ExtractAddresses(call.script)]
    /\ UNCHANGED callFrame


InitCalls ==
    /\ base = 0
    /\ tracked_addresses = EmptyMap
    /\ transactions = EmptyMap
    /\ unspent_outputs = {}
    /\ block_tracker = NoCursor
    /\ chain = <<>>
    /\ pc = "idle"
    /\ event = NoEvent
    /\ trackedAddrs = EmptyMap
    /\ txIndex = 0
    /\ mpPc = "idle"
    /\ mpAddrs = EmptyMap
    /\ mpQueue = <<>>
    /\ reorgs = 0
    /\ ticks = 0
    /\ early = {}
    /\ failed = FALSE
    /\ http = [h \in Handlers |-> IdleHandler]
    /\ apiToken = <<>>
    /\ newAddrMap = EmptyMap
    /\ fatal = FALSE
    /\ boot = Running
    /\ blockData = <<>>
    /\ decoded = [status |-> "none"]
    /\ node = [connected |-> FALSE]
    /\ startCall = "none"
    /\ fetchCall = "none"
    /\ wire = [in |-> <<>>, out |-> <<>>]
    /\ NotHalted
    /\ \/ call \in FeeCalls
       \/ call \in RefreshCalls
       \/ call \in ChangeCalls
       \/ call \in HeaderCalls
       \/ call \in InvCalls
       \/ \E k \in HeaderCounts : call \in HeadersCalls(k)
       \/ call \in ExtractCalls

NextCalls ==
    \/ CalcFee
    \/ RefreshConfirmations
    \/ ConnectChange
    \/ \E batch \in HeaderBatches : StoreHeadersMessage(batch)
    \/ HandleInv
    \/ HeadersRoundTrip
    \/ Extract

SpecCalls == InitCalls /\ [][NextCalls]_vars

----------------------------------------------------------------------------
(* Specifications *)

Ingest ==
    \/ \E txs \in BlockChoices : RecvConnect(txs)
    \/ ConnectCursor
    \/ ConnectRefresh
    \/ ConnectTx
    \/ ConnectBalances
    \/ \E k \in 1..MaxUndo : RecvUndo(k)
    \/ UndoRows
    \/ UndoBalances

Mempool ==
    \/ \E t \in TxIds : MempoolBegin(t)
    \/ MempoolSelect
    \/ MempoolInsert

Api ==
    \E a \in Addr :
        \/ \E n \in 0..MaxReq : Register(a, Coerce(n))
        \/ GetAddress(a)

\* every chain-source call and every store statement succeeds
Next == Ingest \/ Mempool \/ Api

Spec == Init /\ [][Next]_vars

\* chain-source and store calls of a block connect may fail
NextFail == Next \/ ConnectHeaderFails \/ ConnectQueryFails

SpecFail == Init /\ [][NextFail]_vars

----------------------------------------------------------------------------
(* The end of the loops: the cancel of main's context and MempoolTracker.Stop. *)
(* ctx: "live" or "cancelled"; stop: the channel t.stop, "open" or "closed". *)

\* the signal goroutine of main: shutdown() on SIGTERM or SIGINT
Cancel ==
    /\ ctx = "live"
    /\ ctx' = "cancelled"
    /\ UNCHANGED <<storeVars, ingestVars, mempoolVars, early, apiVars, dogeVars, stop>>

\* MempoolTracker.Stop
StopTracker ==
    /\ stop = "open"
    /\ stop' = "closed"
    /\ UNCHANGED <<storeVars, ingestVars, mempoolVars, early, apiVars, dogeVars, ctx>>

\* the ingest goroutine: "case <-ctx.Done(): return"
IngestReturn ==
    /\ pc = "idle"
    /\ ctx = "cancelled"
    /\ pc' = "returned"
    /\ UNCHANGED <<storeVars, base, chain, event, trackedAddrs, txIndex, reorgs, failed,
                   mempoolVars, early, apiVars, dogeVars, haltVars>>

\* a loop that watches the context only
LoopExits_ContextOnly(cancelled, stopped) == cancelled

\* MempoolTracker.Start: the cases of the select that return
LoopExits(cancelled, stopped) == cancelled \/ stopped

\* MempoolTracker.Start: "case <-ctx.Done(): return", "case <-t.stop: return"
MempoolReturn ==
    /\ mpPc = "idle"
    /\ LoopExits(ctx = "cancelled", stop = "closed")
    /\ mpPc' = "returned"
    /\ UNCHANGED <<storeVars, ingestVars, mpAddrs, mpQueue, ticks, early, apiVars,
                   dogeVars, haltVars>>

Halt == Cancel \/ StopTracker \/ IngestReturn \/ MempoolReturn

\* the statements of an event or of a mempool check that follow its first
IngestWork ==
    ConnectCursor \/ ConnectRefresh \/ ConnectTx \/ ConnectBalances \/ UndoRows \/ UndoBalances
MempoolWork == MempoolSelect \/ MempoolInsert

NextHalt == Ingest \/ Mempool \/ Halt

\* a loop that has begun an event or a check goes on with it, and a select
\* whose returning case is ready again and again takes it at some point
SpecHalt ==
    /\ Init
    /\ [][NextHalt]_vars
    /\ WF_vars(IngestWork)
    /\ WF_vars(MempoolWork)
    /\ SF_vars(IngestReturn)
    /\ SF_vars(MempoolReturn)

----------------------------------------------------------------------------
(* Properties *)

Store == [tracked_addresses |-> tracked_addresses,
          transactions |-> transactions,
          unspent_outputs |-> unspent_outputs,
          block_tracker |-> block_tracker]

Tracked == DOMAIN tracked_addresses
Rows == DOMAIN transactions

\* hashes of the blocks of the active chain the store can refer to
ActiveHashes == {SubSeq(chain, 1, i) : i \in 1..Len(chain)} \cup {OldHash}

ConnectDone == pc = "idle" /\ event.kind = "connect"
UndoDone == pc = "idle" /\ event.kind = "undo"

\* C1: whenever the ingest task is between events (every connect and undo so
\* far has completed), the balance of every tracked address is the sum of the
\* amounts of its unspent_outputs rows.
C1_BalanceIsSumOfUnspent ==
    pc = "idle" =>
        \A a \in Tracked :
            tracked_addresses[a].balance = SumAmounts(UnspentOf(unspent_outputs, a))

\* an undo has completed and left an address with unspent outputs and a balance
C1_Witness ==
    /\ UndoDone
    /\ \E a \in Tracked :
          /\ tracked_addresses[a].balance > 0
          /\ Cardinality(UnspentOf(unspent_outputs, a)) > 1

\* the addresses transaction t pays or spends from
Touched(t) ==
    {Tx(t).vout[i].addr : i \in DOMAIN Tx(t).vout}
        \cup {PrevOut(Tx(t).vin[i]).addr : i \in DOMAIN Tx(t).vin}

\* C2: a block connect is all-or-nothing: in every state, also after a call
\* inside the unit has failed, the cursor names the event's block only if the
\* transactions rows of that block are in the store as well (for the addresses
\* registered before the first block).
C2_AllOrNothing ==
    (/\ event.kind = "connect"
     /\ reorgs = 0
     /\ block_tracker = UpdateLastProcessedBlock(event.hash, event.height))
        => \A t \in Range(event.txs) : \A a \in Touched(t) \cap early :
              /\ <<a, t>> \in Rows
              /\ transactions[<<a, t>>].block_hash = event.hash

\* the unspent outputs of address a on the active chain: paid to a by a
\* transaction of the chain and spent by no transaction of the chain
ChainUnspent(a) ==
    UNION {{[address_id |-> a, tx_id |-> t, vout |-> i - 1,
             amount |-> Tx(t).vout[i].value] :
               i \in {j \in DOMAIN Tx(t).vout :
                        /\ Tx(t).vout[j].addr = a
                        /\ \A s \in OnChain : In(t, j - 1) \notin Outpoints(s)}} :
           t \in OnChain}

\* C3: for an address registered before any block was connected, between
\* events the unspent_outputs rows of the address are exactly the outputs
\* paying it on the active chain that no input of the active chain spends.
C3_UnspentMatchesChain ==
    pc = "idle" =>
        \A a \in early : UnspentOf(unspent_outputs, a) = ChainUnspent(a)

\* the blocks the walker can emit next, as Connect events
NextBlocks == {txs \in BlockChoices : ValidBlock(txs)}

\* C4: for every block b the walker can emit on the store as it stands between
\* events, Connect(b); Undo({b}); Connect(b) gives the same four tables as a
\* single Connect(b).
C4_ReorgIdempotent ==
    pc = "idle" =>
        \A txs \in NextBlocks :
            LET ev == ConnectEvent(txs)
                once == ConnectAll(Store, ev)
            IN ConnectAll(UndoAll(once, <<ev.hash>>), ev) = once

\* C5: between events every transactions row with a block_hash names a block
\* of the active chain; when an undo has completed no row names an undone
\* block and no unspent_outputs row of a transaction of an undone block is left.
C5_RowsOnActiveChain ==
    /\ pc = "idle" =>
          \A k \in Rows : transactions[k].block_hash # NullHash
                             => transactions[k].block_hash \in ActiveHashes
    /\ UndoDone =>
          /\ \A k \in Rows : transactions[k].block_hash \notin Range(event.hashes)
          /\ \A u \in unspent_outputs :
                \A h \in Range(event.hashes) : u.tx_id \notin Range(h[Len(h)])

\* C6: when an undo has completed, the persisted cursor is
\* (last_valid_height, resume_from_block) of the Undo event.
C6_CursorMovesBack ==
    UndoDone =>
        block_tracker = UpdateLastProcessedBlock(event.resume_from_block,
                                                 event.last_valid_height)

\* the inputs of the block txs that spend an unspent_outputs row of a tracked
\* address: <<index of the transaction, index of the input>>
TrackedSpends(txs) ==
    {p \in UNION {{<<j, i>> : i \in DOMAIN Tx(txs[j]).vin} : j \in DOMAIN txs} :
        LET in == Tx(txs[p[1]]).vin[p[2]]
        IN /\ PrevOut(in).addr \in Tracked
           /\ \E u \in unspent_outputs :
                 /\ u.address_id = PrevOut(in).addr
                 /\ u.tx_id = in.txid
                 /\ u.vout = in.vout}

\* transaction t has an output paying address a
Pays(t, a) == \E i \in DOMAIN Tx(t).vout : Tx(t).vout[i].addr = a

\* the inputs of transaction t that spend an output of address a
SpendsOf(t, a) == {i \in DOMAIN Tx(t).vin : PrevOut(Tx(t).vin[i]).addr = a}

\* the values of the outputs of address a that transaction t spends
SpentValues(t, a) == {PrevOut(Tx(t).vin[i]).value : i \in SpendsOf(t, a)}

\* the block txs touches address a only through input p[2] of transaction p[1]
OnlyTouch(txs, p, a) ==
    \A j \in DOMAIN txs :
        /\ ~Pays(txs[j], a)
        /\ \A i \in SpendsOf(txs[j], a) : <<j, i>> = p

\* C7 as stated: when a block spends an unspent output of a tracked address,
\* after the connect the unspent_outputs row is gone, the balance is lower by
\* the output's amount, and (when the spending transaction does not pay the
\* address) an outgoing row with minus the spent value exists.
C7_SpendRemoval ==
    pc = "idle" =>
        \A txs \in NextBlocks : \A p \in TrackedSpends(txs) :
            LET t == txs[p[1]]
                in == Tx(t).vin[p[2]]
                a == PrevOut(in).addr
                post == ConnectAll(Store, ConnectEvent(txs))
            IN /\ \A u \in post.unspent_outputs :
                      ~(u.address_id = a /\ u.tx_id = in.txid /\ u.vout = in.vout)
               /\ post.tracked_addresses[a].balance
                      = tracked_addresses[a].balance - PrevOut(in).value
               /\ ~Pays(t, a) =>
                      /\ <<a, t>> \in DOMAIN post.transactions
                      /\ ~post.transactions[<<a, t>>].is_incoming
                      /\ post.transactions[<<a, t>>].amount = 0 - PrevOut(in).value

\* C7, amended: after the connect the unspent_outputs row is gone; the balance
\* is the sum of the remaining unspent outputs of the address, which is the
\* old balance less the output's amount when the block touches the address
\* through this input only; and when the spending transaction does not pay
\* the address, its outgoing row carries minus the value of one of the outputs
\* of the address that the transaction spends (the spent value itself when the
\* transaction spends a single output of the address).
C7_SpendRemovalAmended ==
    pc = "idle" =>
        \A txs \in NextBlocks : \A p \in TrackedSpends(txs) :
            LET t == txs[p[1]]
                in == Tx(t).vin[p[2]]
                a == PrevOut(in).addr
                post == ConnectAll(Store, ConnectEvent(txs))
            IN /\ \A u \in post.unspent_outputs :
                      ~(u.address_id = a /\ u.tx_id = in.txid /\ u.vout = in.vout)
               /\ post.tracked_addresses[a].balance
                      = SumAmounts(UnspentOf(post.unspent_outputs, a))
               /\ OnlyTouch(txs, p, a) =>
                      post.tracked_addresses[a].balance
                          = tracked_addresses[a].balance - PrevOut(in).value
               /\ ~Pays(t, a) =>
                      /\ <<a, t>> \in DOMAIN post.transactions
                      /\ ~post.transactions[<<a, t>>].is_incoming
                      /\ \E v \in SpentValues(t, a) :
                            post.transactions[<<a, t>>].amount = 0 - v

\* a connect has completed in which T4 spent two outputs of a1: both
\* unspent_outputs rows are gone and the outgoing row is in the store
C7_Witness ==
    /\ ConnectDone
    /\ "T4" \in Range(event.txs)
    /\ <<"a1", "T4">> \in Rows
    /\ ~transactions[<<"a1", "T4">>].is_incoming
    /\ transactions[<<"a1", "T4">>].block_hash = event.hash
    /\ UnspentOf(unspent_outputs, "a1") = {}
    /\ tracked_addresses["a1"].balance = 0

C9_StatusPerThreshold ==
    ConnectDone =>
        \A k \in Rows :
            transactions[k].block_hash # NullHash =>
                (transactions[k].status = "confirmed"
                    <=> transactions[k].confirmations
                            >= tracked_addresses[k[1]].required_confirmations)

\* C10: a step of the transaction loop that finds the pending row of a mempool
\* tick for a transaction of the block leaves that row with the block's hash,
\* confirmations 1, the header time, status per threshold, and one
\* unspent_outputs row for each output paying the address.
C10_PendingThenConfirmed ==
    [][\A k \in Rows :
         (/\ pc = "txs"
          /\ txIndex' = txIndex + 1
          /\ k[2] = event.txs[txIndex]
          /\ k[1] \in DOMAIN trackedAddrs
          /\ transactions[k].block_hash = NullHash)
            => /\ Rows' = Rows
               /\ transactions'[k].block_hash = event.hash
               /\ transactions'[k].confirmations = 1
               /\ transactions'[k].timestamp = event.time
               /\ transactions'[k].status =
                     (IF 1 >= trackedAddrs[k[1]] THEN "confirmed" ELSE "pending")
               /\ \A i \in DOMAIN Tx(k[2]).vout :
                     Tx(k[2]).vout[i].addr = k[1] =>
                        [address_id |-> k[1], tx_id |-> k[2], vout |-> i - 1,
                         amount |-> Tx(k[2]).vout[i].value] \in unspent_outputs'
    ]_vars

\* C11: the mempool tracker's AddTransaction writes a row only when
\* (address_id, tx_id) is absent: the step that runs it leaves every row that
\* is in the table unchanged, in particular the block_hash, block_height and
\* confirmations a connect has written.
C11_MempoolNeverOverwrites ==
    [][(mpPc = "insert" /\ mpPc' # "insert")
          => \A k \in Rows : transactions'[k] = transactions[k]]_vars

\* C12: when processing of a Connect event has failed, the persisted cursor
\* has not been advanced to that block.
C12_FailedConnectKeepsCursor ==
    (pc = "idle" /\ event.kind = "connect" /\ failed)
        => block_tracker # UpdateLastProcessedBlock(event.hash, event.height)

\* the value transaction t pays to address a
PaidValue(t, a) ==
    SumAmounts({[vout |-> i, amount |-> Tx(t).vout[i].value] :
                   i \in {j \in DOMAIN Tx(t).vout : Tx(t).vout[j].addr = a}})

\* C13: while no block has been undone, after every completed connect each
\* payment to an address registered before the first block has exactly its
\* incoming row, with the paid amount, confirmations min(50, k+1) for the k
\* blocks connected above its own, and status 'confirmed' exactly from the
\* first connect on at which the confirmations reach required_confirmations;
\* the unspent outputs and the balance of the address are those of the chain.
C13_PaymentLifecycle ==
    (ConnectDone /\ reorgs = 0) =>
        \A a \in early :
            /\ \A i \in 1..Len(chain) : \A t \in Range(chain[i]) :
                  Pays(t, a) =>
                     LET k == Len(chain) - i
                         conf == IF k + 1 > 50 THEN 50 ELSE k + 1
                     IN /\ <<a, t>> \in Rows
                        /\ transactions[<<a, t>>].is_incoming
                        /\ transactions[<<a, t>>].amount = PaidValue(t, a)
                        /\ transactions[<<a, t>>].block_hash = SubSeq(chain, 1, i)
                        /\ transactions[<<a, t>>].confirmations = conf
                        /\ transactions[<<a, t>>].status =
                              (IF conf >= tracked_addresses[a].required_confirmations
                               THEN "confirmed" ELSE "pending")
            /\ UnspentOf(unspent_outputs, a) = ChainUnspent(a)
            /\ tracked_addresses[a].balance = SumAmounts(ChainUnspent(a))

\* a transactions row as checkMempool leaves it: no block, no confirmations
IsPending(row) ==
    /\ row.block_hash = NullHash
    /\ row.block_height = NullHeight
    /\ row.confirmations = 0
    /\ row.status = "pending"

----------------------------------------------------------------------------
\* C15: no access to MempoolTracker.trackedAddrs overlaps a write of it: while
\* AddAddress writes the map on a handler goroutine, no other handler writes
\* it and the mempool task neither replaces it nor looks an address up in it.
C15_MapAccessExclusive ==
    \A h \in Handlers : http[h].pc = "writing" => ~RacingWrite(h)

\* C16: a request whose Authorization header is not the word Bearer, a space
\* and the configured token is answered 401 by the middleware and goes no
\* further: its handler goroutine is never at a store call, and the step that
\* serves it changes no table and nothing of the mempool tracker.
C16_UnauthorizedIs401 ==
    [][\A h \in Handlers :
          (http'[h].pc # "idle" /\ ~http'[h].auth)
             => /\ http'[h].pc = "done"
                /\ http'[h].resp = 401
                /\ (http'[h] # http[h]) => UNCHANGED <<storeVars, mempoolVars, newAddrMap>>
      ]_vars

\* a request with a wrong header was answered 401 while another was served
C16_Witness ==
    \E h, g \in Handlers :
        /\ http[h].pc = "done" /\ http[h].resp = 401 /\ ~http[h].auth
        /\ http[g].pc = "done" /\ http[g].resp = 200 /\ http[g].auth
        /\ tracked_addresses # EmptyMap

\* C17: every row of tracked_addresses has required_confirmations >= 1, and
\* when handleTrackAddress answers 200 the address of the request is a row of
\* tracked_addresses and a key of the mempool tracker's address map.
C17_RegisteredAndTracked ==
    [][/\ \A a \in DOMAIN tracked_addresses' :
             tracked_addresses'[a].required_confirmations >= 1
       /\ \A h \in Handlers :
             (http[h].pc = "respond" /\ http[h].route = "track"
                /\ http'[h].pc = "done" /\ http'[h].resp = 200)
                => /\ http[h].addr \in DOMAIN tracked_addresses'
                   /\ http[h].addr \in DOMAIN mpAddrs'
      ]_vars

\* C18: a statement of GetOrCreateAddress never fails and never changes a row
\* that exists: the call ends with the address a row of tracked_addresses,
\* created with balance 0 if it was absent, and the handler is not answered 500.
C18_GetOrCreateIdempotent ==
    [][\A h \in Handlers :
          (http[h].pc \in {"select", "insert"} /\ http'[h] # http[h])
             => /\ http'[h].resp # 500
                /\ \A b \in DOMAIN tracked_addresses :
                      /\ b \in DOMAIN tracked_addresses'
                      /\ tracked_addresses'[b] = tracked_addresses[b]
                /\ http'[h].pc = "respond"
                      => /\ http[h].addr \in DOMAIN tracked_addresses'
                         /\ http[h].addr \notin DOMAIN tracked_addresses
                               => tracked_addresses'[http[h].addr].balance = 0
      ]_vars

\* C19: the set of rows of tracked_addresses changes only in a step of the
\* registration handler (POST /api/track): no GET /api/address/{address}, no
\* block connect, no undo and no mempool tick adds or removes a row.
C19_OnlyRegistrationTracks ==
    [][DOMAIN tracked_addresses' # DOMAIN tracked_addresses
          => \E a \in Addr, n \in 0..MaxReq : Register(a, Coerce(n))]_vars

\* C20: the resume block is the configured start block (the hash, or the hash
\* of the block at the configured height) when one is configured; otherwise
\* the hash of the persisted cursor when the store holds one; otherwise the
\* node's best block. Calls to the node and the store succeed.
Configured(b) ==
    IF b.flag.set THEN b.flag.value
    ELSE IF b.env.set THEN b.env.value ELSE <<>>

C20_ResumeOrder ==
    (boot.phase = "walking" /\ boot.cursor # "error" /\ boot.bestOk)
       => LET start == Configured(boot)
          IN IF start # <<>>
             THEN IF ParseInt(start).err THEN boot.resume = start
                  ELSE ParseInt(start).n <= boot.tip
                          => boot.resume = HashAt(ParseInt(start).n)
             ELSE IF boot.cursor = "row"
                  THEN boot.resume = HashAt(CursorHeight)
                  ELSE boot.resume = HashAt(boot.tip)

----------------------------------------------------------------------------
\* the transactions of the blocks below the newest block of the chain
Earlier == PreTxs \cup Range(Flatten(SubSeq(chain, 1, Len(chain) - 1)))

\* the step is an iteration of ProcessBlockTransactions over transaction t of
\* the block being connected, with address a in the map loaded for that block
FromBlock(a, t) ==
    /\ pc = "txs" /\ txIndex <= Len(event.txs) /\ txIndex' = txIndex + 1
    /\ event.txs[txIndex] = t
    /\ a \in DOMAIN trackedAddrs
    /\ t \notin Earlier

\* the step is the insert of a mempool tick that matched transaction t for a
FromMempool(a, t) ==
    /\ mpPc = "insert" /\ mpPc' # "insert"
    /\ Head(mpQueue).address_id = a /\ Head(mpQueue).tx_id = t

\* C21: a transactions row or an unspent_outputs row of an address is created
\* only for a registered address, by the connect of a block that loaded the
\* address (for a transaction of that block, in no earlier block) or by a
\* mempool tick that matched it: nothing is created for the outputs of blocks
\* connected before the address was registered.
C21_NoBackfill ==
    [][/\ \A k \in Rows' \ Rows :
             /\ k[1] \in DOMAIN tracked_addresses
             /\ FromBlock(k[1], k[2]) \/ FromMempool(k[1], k[2])
       /\ \A u \in unspent_outputs' \ unspent_outputs :
             /\ u.address_id \in DOMAIN tracked_addresses
             /\ FromBlock(u.address_id, u.tx_id)
      ]_vars

\* a2 was registered after the block paying it in T2: T2 left no row, the
\* later T4 did
C21_Witness ==
    /\ ConnectDone
    /\ "a2" \in Tracked \ early
    /\ "T2" \in Earlier
    /\ <<"a2", "T2">> \notin Rows
    /\ \A u \in unspent_outputs : ~(u.address_id = "a2" /\ u.tx_id = "T2")
    /\ <<"a2", "T4">> \in Rows
    /\ \E u \in unspent_outputs : u.address_id = "a2" /\ u.tx_id = "T4"

----------------------------------------------------------------------------
(* C22: DecodeBlock *)

\* the bytes of the input hold the header and the whole count
CountPresent(in) == Len(in.bytes) >= 80 + Len(in.count.bytes)

\* how many transactions of the input lie wholly within its bytes
WholeTxs(in) ==
    Cardinality({k \in DOMAIN in.txs :
        80 + Len(in.count.bytes)
        + Len(Concat([i \in 1..k |-> EncodeTransaction(in.txs[i])])) <= Len(in.bytes)})

IsAuxPow(in) == in.version[4] >= 32

\* C22: a block whose version is at least 0x20000000 and whose count is at
\* least 1 decodes to exactly one transaction without an error; a block of a
\* lower version decodes to exactly count transactions in serialized order;
\* input shorter than 80 bytes, or whose count or a needed transaction cannot
\* be decoded, gives an error and no block.
C22_DecodeBlock ==
    decoded.status # "none" =>
        LET in == blockData
            n == in.count.n
            failure == decoded = DecodeError
        IN /\ ~CountPresent(in) => failure
           /\ CountPresent(in) /\ IsAuxPow(in) /\ n >= 1 =>
                 IF WholeTxs(in) >= 1
                 THEN decoded = [status |-> "ok", txs |-> <<in.txs[1]>>]
                 ELSE failure
           /\ CountPresent(in) /\ ~IsAuxPow(in) =>
                 IF WholeTxs(in) >= n
                 THEN decoded = [status |-> "ok", txs |-> SubSeq(in.txs, 1, n)]
                 ELSE failure

\* the same, leaving out counts no input can hold
C22_BoundedCounts ==
    blockData.count.n < Huge => C22_DecodeBlock

C22_AuxPowOne ==
    /\ IsAuxPow(blockData) /\ blockData.count.n = 3 /\ Len(blockData.txs) = 2
    /\ blockData.trailer # <<>>
    /\ decoded = [status |-> "ok", txs |-> <<blockData.txs[1]>>]

C22_RegularAll ==
    /\ ~IsAuxPow(blockData) /\ blockData.count.n = 2 /\ Len(blockData.txs) = 3
    /\ blockData.txs[1] # blockData.txs[2]
    /\ decoded = [status |-> "ok", txs |-> SubSeq(blockData.txs, 1, 2)]

C22_Truncated ==
    /\ ~IsAuxPow(blockData) /\ blockData.count.n = 2 /\ WholeTxs(blockData) = 1
    /\ decoded = DecodeError

\* a regular block announcing more transactions than can be allocated
C22_Panics ==
    ~(/\ ~IsAuxPow(blockData)
      /\ blockData.count.bytes = <<255>> \o Bytes(8, 255)
      /\ decoded = DecodePanic)

----------------------------------------------------------------------------
(* C23..C28: the SPV session *)

\* positions of the log holding a message written by the given sender
WrittenBy(by, cmd) ==
    {i \in DOMAIN wire.log : wire.log[i].by = by /\ wire.log[i].cmd = cmd}

\* entries a step adds to the log
Added == SubSeq(wire'.log, Len(wire.log) + 1, Len(wire'.log))

\* the message loop takes a message of the command off the wire
Handles(cmd) ==
    /\ Reading({cmd})
    /\ Added # <<>>
    /\ Added[1] = Read(Head(wire.in))

\* C23: Start writes version before anything else, writes getheaders only
\* after a verack of the peer was read after that version, and a Start that
\* timed out has returned an error and has written no getheaders.
C23_HandshakeBeforeSync ==
    /\ \A i \in DOMAIN wire.log :
          wire.log[i].by = "start" /\ (\A j \in 1..(i - 1) : wire.log[j].by # "start")
             => wire.log[i].cmd = "version"
    /\ \A i \in WrittenBy("start", "getheaders") :
          \E j \in 1..(i - 1) :
             /\ wire.log[j] = Read(Msg("verack", 0))
             /\ \E k \in 1..(j - 1) : wire.log[k] = Written("start", "version", 0)
    /\ startCall = "timeout" => WrittenBy("start", "getheaders") = {}

C23_Witness ==
    /\ startCall = "returned"
    /\ WrittenBy("start", "getheaders") # {}
    /\ \E i \in DOMAIN wire.log : wire.log[i] = Read(Msg("ping", 1))

\* a Start that timed out although the peer's verack was read
C23_VerackMissed ==
    /\ startCall = "timeout"
    /\ \E i \in DOMAIN wire.log : wire.log[i] = Read(Msg("verack", 0))

\* C24: a headers message holding a header that fails validation is dropped
\* whole: nothing of it is stored, currentHeight and chainTip stay, and the
\* connection to the peer is closed.
C24_InvalidBatchDropped ==
    [][(/\ Handles("headers")
        /\ VarIntSize(Head(wire.in).count) = 1
        /\ Head(wire.in).bad \in 1..Head(wire.in).held)
          => /\ node'.stored = node.stored
             /\ node'.currentHeight = node.currentHeight
             /\ node'.chainTip = node.chainTip
             /\ ~node'.connected
      ]_vars

\* the part of C24 about the store and the height
C24_NothingKept ==
    [][(/\ Handles("headers")
        /\ VarIntSize(Head(wire.in).count) = 1
        /\ Head(wire.in).bad \in 1..Head(wire.in).held)
          => /\ node'.stored = node.stored
             /\ node'.currentHeight = node.currentHeight
             /\ node'.chainTip = node.chainTip
      ]_vars

\* C25: after a whole and valid headers reply the node writes a further
\* getheaders from the last stored header exactly when the reply held 2000
\* headers; any other count ends header sync and writes nothing.
C25_MoreIffFull ==
    [][(/\ Handles("headers")
        /\ Head(wire.in).held = Head(wire.in).count
        /\ Head(wire.in).bad = 0)
          => IF Head(wire.in).count = 2000
             THEN Added = <<Read(Head(wire.in)), Written("loop", "getheaders", node'.chainTip)>>
             ELSE /\ Added = <<Read(Head(wire.in))>>
                  /\ node'.headerSyncComplete
      ]_vars

\* the part of C25 about replies of fewer headers than MaxHeadersResults
C25_ShortEndsSync ==
    [][(/\ Handles("headers")
        /\ Head(wire.in).held = Head(wire.in).count
        /\ Head(wire.in).bad = 0
        /\ Head(wire.in).count < MaxHeadersResults)
          => /\ Added = <<Read(Head(wire.in))>>
             /\ node'.headerSyncComplete
      ]_vars

\* C26: when the wait of Start or of GetBlockTransactions times out, the
\* connection is closed by the time the error is returned.
C26_TimeoutResets ==
    [][(\/ startCall # "timeout" /\ startCall' = "timeout"
        \/ fetchCall.pc # "timeout" /\ fetchCall'.pc = "timeout")
          => ~node'.connected
      ]_vars

\* C27: a block message handled while GetBlockTransactions waits is handed
\* to that call.
C27_BlockDelivered ==
    [][(/\ Handles("block")
        /\ fetchCall.pc = "waiting"
        /\ Head(wire.in).payload = fetchCall.hash)
          => fetchCall'.pc = "delivered"
      ]_vars

\* C28: a ping is answered by exactly one pong with the payload of the ping
\* and changes nothing else of the node; a pong is written for a ping only.
C28_PongEchoesPing ==
    [][/\ Handles("ping")
          => /\ Added = <<Read(Head(wire.in)),
                          Written("loop", "pong", Head(wire.in).payload)>>
             /\ UNCHANGED <<node, startCall, fetchCall>>
       /\ (\E i \in DOMAIN Added : Added[i].cmd = "pong") => Handles("ping")
      ]_vars

C28_Witness ==
    \E i \in DOMAIN wire.log :
        /\ i > 2
        /\ wire.log[i - 1] = Read(Msg("ping", 2))
        /\ wire.log[i] = Written("loop", "pong", 2)
        /\ node.stored > 0

----------------------------------------------------------------------------
(* C29, C30: the ingest loop and the end of the loops *)

\* C29: the ingest task takes an event only when it has returned from the one
\* before, takes the events as the walker emits them, one per change of the
\* walker's chain, and keeps the event it works on until it is done with it.
C29_OneEventAtATime ==
    [][/\ event' # event =>
             /\ pc = "idle"
             /\ pc' \in {"cursor", "undo"}
             /\ chain' # chain
             /\ event'.kind = "connect" =>
                   /\ chain' = Append(chain, event'.txs)
                   /\ event'.height = base + Len(chain')
             /\ event'.kind = "undo" =>
                   /\ chain' = event'.resume_from_block
                   /\ Len(chain') < Len(chain)
       /\ chain' # chain => event' # event
       /\ pc # "idle" /\ pc' # pc => pc' \notin {"cursor", "undo"}
      ]_vars

\* two connects, an undo and a further connect have been applied in turn
C29_Witness ==
    /\ ConnectDone
    /\ reorgs = 1
    /\ Len(chain) = 2
    /\ block_tracker # NoCursor

C30_Stopped ==
    /\ ctx = "live"
    /\ stop = "closed"
    /\ mpPc = "returned"
    /\ pc # "returned"

----------------------------------------------------------------------------
(* C31..C40 *)

\* the values of the outputs a transaction spends
RECURSIVE SpentValue(_)
SpentValue(vin) == IF vin = <<>> THEN 0 ELSE PrevOut(Head(vin)).value + SpentValue(Tail(vin))

C31_ServedSpend ==
    /\ call.fn = "fee" /\ call.done
    /\ Tx(call.tx).vin # <<>>
    /\ \A i \in DOMAIN Tx(call.tx).vin : Tx(call.tx).vin[i].txid \in call.served
    => call.ret = SpentValue(Tx(call.tx).vin) - TotalOutputs(Tx(call.tx).vout)

\* the fee of a coinbase is its outputs, negated
C31_CoinbaseNegative ==
    call.fn = "fee" /\ call.done /\ Tx(call.tx).vin = <<>>
        => call.ret = 0 - TotalOutputs(Tx(call.tx).vout)

C33_ConfirmationsInRange ==
    call.fn = "refresh" /\ call.done => call.ret \in 0..50

\* the same for a block at or above the block of the row
C33_InRangeAbove ==
    call.fn = "refresh" /\ call.done /\ call.height >= call.block_height
        => call.ret \in 1..50

MempoolStep == mpPc' # mpPc \/ mpQueue' # mpQueue \/ ticks' # ticks

\* C35: a step of the mempool check only adds transactions rows: it leaves
\* unspent_outputs, every balance and the block cursor as they are, and every
\* transactions row that exists before the step exists after it, unchanged.
C35_MempoolOnlyAddsRows ==
    [][MempoolStep =>
          /\ unspent_outputs' = unspent_outputs
          /\ tracked_addresses' = tracked_addresses
          /\ block_tracker' = block_tracker
          /\ Rows \subseteq DOMAIN transactions'
          /\ \A k \in Rows : transactions'[k] = transactions[k]
      ]_vars

\* the frame of C35 without the rows that exist: tables other than
\* transactions, and the set of row keys only grows
C35_OtherTablesUntouched ==
    [][MempoolStep =>
          /\ unspent_outputs' = unspent_outputs
          /\ tracked_addresses' = tracked_addresses
          /\ block_tracker' = block_tracker
          /\ Rows \subseteq DOMAIN transactions'
      ]_vars

\* C36: a verack the message loop reads after Start has written version,
\* whether or not Start has reached its select, completes the handshake:
\* Start goes on to header sync.
C36_VerackNeverDropped ==
    [][(Handles("verack") /\ startCall \in {"sent", "waiting"})
          => startCall' = "handshaken"]_vars

\* the part of C36 that holds: a verack read while Start waits in its select
C36_VerackWhileWaiting ==
    [][(Handles("verack") /\ startCall = "waiting")
          => startCall' = "handshaken"]_vars

\* C37: the stored headers are linked: the header stored at height 1 names
\* the genesis hash as its previous block, and every header stored at a
\* height above 1 names the hash of the header stored one height below it.
C37_StoredChainLinked ==
    call.fn = "headers" =>
        \A k \in DOMAIN call.blocks :
            IF call.blocks[k].height = 1
            THEN call.blocks[k].prev_block = "G"
            ELSE \E j \in DOMAIN call.blocks :
                    /\ call.blocks[j].height = call.blocks[k].height - 1
                    /\ call.blocks[k].prev_block = j

\* what validateHeader does ensure: above height 1 the previous block of a
\* stored header is some stored header
C37_PrevIsStored ==
    call.fn = "headers" =>
        \A k \in DOMAIN call.blocks :
            call.blocks[k].height > 1 => call.blocks[k].prev_block \in DOMAIN call.blocks

\* a fork: two stored headers name the same previous block
C37_ForkStored ==
    /\ call.fn = "headers"
    /\ {"H1", "H2", "F2"} \subseteq DOMAIN call.blocks
    /\ call.blocks["H2"].height = 2
    /\ call.blocks["F2"].height = 3

\* the getdata payloads an inv payload's block items call for, in order
RECURSIVE BlockRequests(_)
BlockRequests(items) ==
    IF items = <<>> THEN <<>>
    ELSE (IF Head(items).type = 2
          THEN <<[count |-> 1, type |-> 2, hash |-> Head(items).hash]>> ELSE <<>>)
         \o BlockRequests(Tail(items))

IsBlockRequest(p) == p.type = 2

\* C38: handling an inv message never panics, and for a payload that holds
\* the items it announces, the getdata messages of type 2 that were sent are
\* one per block item, each naming that one item's hash.
C38_OneGetDataPerBlock ==
    (call.fn = "inv" /\ call.done) =>
        /\ call.ret.status # "panic"
        /\ call.payload.count = Len(call.payload.items) =>
              SelectSeq(call.ret.sent, IsBlockRequest) = BlockRequests(call.payload.items)

\* handling completes when no item that is read asks for a getdata
C38_CompletesWithoutRequests ==
    (/\ call.fn = "inv" /\ call.done
     /\ \A i \in 1..Len(call.payload.items) :
           i <= call.payload.count => call.payload.items[i].type = 3)
        => call.ret.status # "panic" /\ call.ret.sent = <<>>

\* a block item was read and the handler panicked in sendGetDataMessage
C38_PanicOnBlockItem ==
    /\ call.fn = "inv" /\ call.done
    /\ call.payload.count = 1
    /\ Len(call.payload.items) = 1
    /\ call.payload.items[1].type = 2
    /\ call.ret.status = "panic"

\* C39: for every list of headers, handleHeadersMessage reads from the payload
\* sendHeadersMessage builds the same headers in the same order, without an
\* error.
C39_HeadersRoundTrip ==
    (call.fn = "roundtrip" /\ call.done) =>
        call.ret = [err |-> "nil", headers |-> call.headers]

\* lists of at most one header do round-trip
C39_OneHeaderRoundTrips ==
    (call.fn = "roundtrip" /\ call.done /\ Len(call.headers) <= 1) =>
        call.ret = [err |-> "nil", headers |-> call.headers]

\* the second of two headers is read one byte early
C39_SecondHeaderShifted ==
    /\ call.fn = "roundtrip" /\ call.done
    /\ call.headers = <<BlockHeader(1), BlockHeader(1)>>
    /\ call.ret.err = "nil"
    /\ Len(call.ret.headers) = 2
    /\ call.ret.headers[1] = BlockHeader(1)
    /\ call.ret.headers[2].Version = 256

\* a count of two or three bytes is misread
C39_LongCountMisread ==
    /\ call.fn = "roundtrip" /\ call.done
    /\ Len(call.headers) > MaxBatch
    /\ Len(call.ret.headers) # Len(call.headers)

IsP2PKH(script) == \E h \in Hashes : script = P2PKH(h)
IsP2SH(script) == \E h \in Hashes : script = P2SH(h)

\* version byte, 20-byte hash, first four bytes of the double hash of the two
Base58Check(version, hash) == <<version>> \o hash \o checksum(<<version>> \o hash)

\* C40: ExtractAddresses returns for a P2PKH script one address that decodes
\* to 0x1E, the hash and the checksum of those 21 bytes, for a P2SH script
\* the same with 0x16, and for any other script no address.
C40_AddressOfScript ==
    (call.fn = "extract" /\ call.done) =>
        IF IsP2PKH(call.script)
        THEN /\ Len(call.ret) = 1
             /\ Base58Decode(call.ret[1]) = Base58Check(30, SubSeq(call.script, 4, 23))
        ELSE IF IsP2SH(call.script)
        THEN /\ Len(call.ret) = 1
             /\ Base58Decode(call.ret[1]) = Base58Check(22, SubSeq(call.script, 3, 22))
        ELSE call.ret = <<>>

\* what holds of C40: one address for the two script forms, none otherwise
C40_OneAddressOrNone ==
    (call.fn = "extract" /\ call.done) =>
        Len(call.ret) = IF IsP2PKH(call.script) \/ IsP2SH(call.script) THEN 1 ELSE 0

\* the address of a P2PKH script decodes to 30 bytes: the version byte twice,
\* the hash, and two checksums
C40_VersionAndChecksumTwice ==
    /\ call.fn = "extract" /\ call.done
    /\ IsP2PKH(call.script)
    /\ Len(call.ret) = 1
    /\ Base58Decode(call.ret[1]) =
          LET inner == Base58Check(30, SubSeq(call.script, 4, 23))
          IN <<30>> \o inner \o checksum(<<30>> \o inner)

====
